---- MODULE Spec2Model ----
(***************************************************************************)
(* Model of Scintilla's document engine: the Document gateways             *)
(* (InsertString, DeleteChars, Undo, Redo), the CellBuffer below them and  *)
(* the UndoHistory with its scrap stack.                                   *)
(*                                                                         *)
(* A document is a record d holding the fields of Document, CellBuffer and *)
(* UndoHistory.  Every method is an operator from records to records, so   *)
(* that a watcher callback can call a method on the half-updated document  *)
(* exactly as the C++ does.  The actions at the end apply one method to    *)
(* the current state.                                                      *)
(***************************************************************************)
EXTENDS Integers, Sequences, FiniteSets, TLC

\* ------------------------------------------------------------------ bounds
\* Longest document the model edits.
MaxLen == 3
\* Largest value of maxAction (number of history slots after slot 0).
MaxActions == 4
\* Deepest nesting of BeginUndoAction.
MaxDepth == 2
\* Longest string of the scrap stack.
MaxStack == 2 * MaxLen
\* Longest RunStyles the model fills.
MaxRunsLength == 4
\* Most lines of a ContractionState.
MaxLines == 3
\* Most elements of a SplitVector.
MaxVector == 3
\* Longest text and largest maxAction of the documents that are only typed into.
MaxTyped == 5
MaxTypedActions == 10

\* Bytes of the model's documents: a letter and a line feed.
Chars == {"a", "\n"}

VARIABLES
    substance,            \* CellBuffer::substance, the text
    style,                \* CellBuffer::style, the style byte of each byte of the text
    starts,               \* LineVector::starts, the line start positions
    readOnly,             \* CellBuffer::readOnly
    collectingUndo,       \* CellBuffer::collectingUndo
    actions,              \* UndoHistory::actions, slots 0..maxAction
    maxAction,            \* UndoHistory::maxAction
    currentAction,        \* UndoHistory::currentAction
    undoSequenceDepth,    \* UndoHistory::undoSequenceDepth
    savePoint,            \* UndoHistory::savePoint
    tentativePoint,       \* UndoHistory::tentativePoint
    detach,               \* UndoHistory::detach (std::optional<int>)
    scraps,               \* UndoHistory::scraps, the ScrapStack
    enteredModification,  \* Document::enteredModification
    enteredStyling,       \* Document::enteredStyling
    enteredReadOnlyCount, \* Document::enteredReadOnlyCount
    endStyled,            \* Document::endStyled
    insertionSet,         \* Document::insertionSet
    insertion,            \* Document::insertion
    broken,               \* an assertion of the code has failed, or a read left the scrap stack
    saved,                \* observation: the save point set by SetSavePoint
    typed,                \* observation: the current run of typed characters
    group,                \* observation: the outermost undo group
    composing,            \* observation: the text when tentative mode was entered
    runs,                 \* a RunStyles: its Partitioning starts and its values styles
    cs,                   \* a ContractionState
    sv,                   \* a SplitVector<int> with its gap
    coding,               \* Document::dbcsCodePage and Document::pcf, the case folder
    found,                \* observation: what the last FindText returned
    conv,                 \* the call of ConvertLineEnds in progress: its place and pos
    owned,                \* observation: the bytes AppendAction was given, by slot
    scaled                \* an UndoActions: its ScaledVectors positions and lengths

vars == <<substance, style, starts, readOnly, collectingUndo, actions, maxAction,
          currentAction, undoSequenceDepth, savePoint, tentativePoint, detach,
          scraps, enteredModification, enteredStyling, enteredReadOnlyCount,
          endStyled, insertionSet, insertion, broken, saved, typed, group, composing,
          runs, cs, sv, coding, found, conv, owned, scaled>>

\* ----------------------------------------------------------------- helpers
\* The first n elements of s.
Take(s, n) == SubSeq(s, 1, n)

\* s without its first n elements.
Drop(s, n) == SubSeq(s, n + 1, Len(s))

\* SplitVector::DeleteRange: s without the elements at offsets [pos, pos+n); a range
\* that is not inside s is refused and s is left as it is.
DeleteRange(s, pos, n) ==
    IF pos < 0 \/ n < 0 \/ pos + n > Len(s) THEN s ELSE Take(s, pos) \o Drop(s, pos + n)

\* SplitVector::InsertFromArray: s with t inserted at offset pos; an offset outside s
\* is refused.
InsertFromArray(s, pos, t) ==
    IF pos < 0 \/ pos > Len(s) THEN s ELSE Take(s, pos) \o t \o Drop(s, pos)

\* SplitVector::SetValueAt: an offset outside s is refused.
SetValueAt(s, pos, v) ==
    IF pos < 0 \/ pos >= Len(s) THEN s ELSE [s EXCEPT ![pos + 1] = v]

\* ------------------------------------------------------------- UndoHistory
\* std::optional<int> detach.
NoDetach == [has |-> FALSE, val |-> 0]
SomeDetach(v) == [has |-> TRUE, val |-> v]

\* UndoActions::Create: one slot of the history.
Create(at, position, lenData, mayCoalesce) ==
    [at |-> at, mayCoalesce |-> mayCoalesce, position |-> position, lenData |-> lenData]

\* UndoActions::Create(index, ActionType::start) with the default arguments.
CreateStart == Create("start", 0, 0, TRUE)

\* Slot i of the history (slots are numbered from 0 as in the C++).
Slot(d, i) == d.actions[i + 1]

\* The history with slot i written and the slots above i dropped.  Every write is at
\* the new maxAction or just below it, and a slot above maxAction is never read before
\* it is written again (every read is at an index <= maxAction), so the model does
\* not keep the slots above maxAction.
WriteSlot(acts, i, a) ==
    [k \in 1..(i + 1) |-> IF k = i + 1 THEN a ELSE acts[k]]

\* ScrapStack::Push
Push(sc, text) ==
    LET base == IF sc.current < Len(sc.stack) THEN Take(sc.stack, sc.current) ELSE sc.stack
        stack == base \o text
    IN [stack |-> stack, current |-> Len(stack)]

\* The length bytes that a pointer to offset `from` of the stack's string addresses.
\* Bytes outside the string are not the stack's: reading them is undefined, and the
\* model reads the byte `wild` that the caller chose.
TextAt(sc, from, length, wild) ==
    [k \in 1..length |->
        IF from + k >= 1 /\ from + k <= Len(sc.stack) THEN sc.stack[from + k] ELSE wild]

\* TRUE when those bytes are all in the stack's string.
TextInside(sc, from, length) == from >= 0 /\ from + length <= Len(sc.stack)

\* ScrapStack::MoveForward
MoveForward(sc, length) ==
    IF sc.current + length <= Len(sc.stack)
        THEN [sc EXCEPT !.current = sc.current + length] ELSE sc

\* ScrapStack::MoveBack
MoveBack(sc, length) ==
    IF sc.current >= length THEN [sc EXCEPT !.current = sc.current - length] ELSE sc

\* The scan of AppendAction for the record a new action is compared with: container
\* actions that may coalesce are skipped.
RECURSIVE TargetAct(_, _)
TargetAct(d, targetAct) ==
    IF targetAct > 0 /\ Slot(d, targetAct).at = "container" /\ Slot(d, targetAct).mayCoalesce
        THEN TargetAct(d, targetAct - 1)
        ELSE targetAct

\* A faulty decision at top level that lets an action coalesce across the save point.
TopLevelAdvancePastSavePoint(d, at, position, lengthData, mayCoalesce) ==
    LET cur == Slot(d, d.currentAction)
        prev == Slot(d, TargetAct(d, d.currentAction - 1))
    IN  IF d.currentAction = d.tentativePoint THEN TRUE
        ELSE IF ~cur.mayCoalesce THEN TRUE
        ELSE IF ~mayCoalesce \/ ~prev.mayCoalesce THEN TRUE
        ELSE IF at # prev.at /\ prev.at # "start" THEN TRUE
        ELSE IF at = "insert" /\ position # prev.position + prev.lenData THEN TRUE
        ELSE IF at = "remove"
            THEN ~(lengthData \in {1, 2}
                   /\ (position + lengthData = prev.position \/ position = prev.position))
        ELSE FALSE

\* A faulty decision at top level that compares an insertion with the start of the
\* previous one, not with its end.
TopLevelAdvanceAtStart(d, at, position, lengthData, mayCoalesce) ==
    LET cur == Slot(d, d.currentAction)
        prev == Slot(d, TargetAct(d, d.currentAction - 1))
    IN  IF d.currentAction = d.savePoint \/ d.currentAction = d.tentativePoint THEN TRUE
        ELSE IF ~cur.mayCoalesce THEN TRUE
        ELSE IF ~mayCoalesce \/ ~prev.mayCoalesce THEN TRUE
        ELSE IF at # prev.at /\ prev.at # "start" THEN TRUE
        ELSE IF at = "insert" /\ position # prev.position THEN TRUE
        ELSE FALSE

\* A faulty decision at top level that does not compare the kinds of the actions.
TopLevelAdvanceAnyKind(d, at, position, lengthData, mayCoalesce) ==
    LET cur == Slot(d, d.currentAction)
        prev == Slot(d, TargetAct(d, d.currentAction - 1))
    IN  IF d.currentAction = d.savePoint \/ d.currentAction = d.tentativePoint THEN TRUE
        ELSE IF ~cur.mayCoalesce THEN TRUE
        ELSE IF ~mayCoalesce \/ ~prev.mayCoalesce THEN TRUE
        ELSE IF at = "insert" /\ position # prev.position + prev.lenData THEN TRUE
        ELSE IF at = "remove"
            THEN ~(lengthData \in {1, 2}
                   /\ (position + lengthData = prev.position \/ position = prev.position))
        ELSE FALSE

\* A faulty decision at top level that starts a new undo operation with every action.
TopLevelAdvanceAlways(d, at, position, lengthData, mayCoalesce) == TRUE

\* The decision of AppendAction at top level (undoSequenceDepth = 0): TRUE when
\* currentAction is advanced, so that the new action starts a new undo operation.
TopLevelAdvance(d, at, position, lengthData, mayCoalesce) ==
    LET cur == Slot(d, d.currentAction)
        prev == Slot(d, TargetAct(d, d.currentAction - 1))
    IN  IF d.currentAction = d.savePoint \/ d.currentAction = d.tentativePoint THEN TRUE
        ELSE IF ~cur.mayCoalesce THEN TRUE
        ELSE IF ~mayCoalesce \/ ~prev.mayCoalesce THEN TRUE
        ELSE IF at = "container" \/ cur.at = "container" THEN FALSE
        ELSE IF at # prev.at /\ prev.at # "start" THEN TRUE
        ELSE IF at = "insert" /\ position # prev.position + prev.lenData THEN TRUE
        ELSE IF at = "remove"
            THEN IF lengthData = 1 \/ lengthData = 2
                    THEN IF position + lengthData = prev.position THEN FALSE
                         ELSE IF position = prev.position THEN FALSE
                         ELSE TRUE
                    ELSE TRUE
        ELSE FALSE

\* The decision of AppendAction inside an undo group (undoSequenceDepth > 0).
GroupAdvance(d) == ~Slot(d, d.currentAction).mayCoalesce

\* A faulty AppendAction that keeps a save point it can no longer reach.
AppendSavePointKept(d) == d.savePoint

\* A faulty AppendAction that moves an unreachable save point to the first slot.
AppendSavePointFirst(d) ==
    IF d.currentAction < d.savePoint THEN 0 ELSE d.savePoint

\* The save point and detach point after AppendAction's first statement.
AppendSavePoint(d) ==
    IF d.currentAction < d.savePoint THEN -1 ELSE d.savePoint

AppendDetach(d) ==
    IF d.currentAction < d.savePoint
        THEN (IF ~d.detach.has THEN SomeDetach(d.currentAction) ELSE d.detach)
        ELSE IF d.detach.has /\ d.detach.val > d.currentAction
            THEN SomeDetach(d.currentAction)
            ELSE d.detach

\* The decision of AppendAction whether the new action starts a new undo operation.
Advance(d, at, position, lengthData, mayCoalesce) ==
    IF d.currentAction >= 1
        THEN IF d.undoSequenceDepth = 0
                THEN TopLevelAdvance(d, at, position, lengthData, mayCoalesce)
                ELSE GroupAdvance(d)
        ELSE TRUE

\* A faulty end of AppendAction that does not cut off the actions that could be redone.
AppendRecordKeepsRedo(d, at, position, data, mayCoalesce, advance) ==
    LET ca == IF advance THEN d.currentAction + 1 ELSE d.currentAction
    IN  [d EXCEPT !.actions = WriteSlot(WriteSlot(d.actions, ca,
                                                  Create(at, position, Len(data),
                                                         mayCoalesce)),
                                        ca + 1, CreateStart),
                  !.currentAction = ca + 1,
                  !.maxAction = IF @ > ca + 1 THEN @ ELSE ca + 1,
                  !.scraps = IF Len(data) # 0 THEN Push(d.scraps, data) ELSE d.scraps,
                  !.startSequence = advance]

\* The end of AppendAction: the action is written at currentAction, after currentAction
\* is advanced when `advance` says so, a start record is written above it, and the
\* caller's startSequence is set.
AppendRecord(d, at, position, data, mayCoalesce, advance) ==
    LET ca == IF advance THEN d.currentAction + 1 ELSE d.currentAction
    IN [d EXCEPT !.actions = WriteSlot(
                        WriteSlot(d.actions, ca, Create(at, position, Len(data), mayCoalesce)),
                        ca + 1, CreateStart),
                 !.currentAction = ca + 1,
                 !.maxAction = ca + 1,
                 !.scraps = IF Len(data) # 0 THEN Push(d.scraps, data) ELSE d.scraps,
                 !.startSequence = advance]

\* UndoHistory::AppendAction, after its first statement has dealt with the save point.
AppendChecked(d, at, position, data, mayCoalesce) ==
    AppendRecord(d, at, position, data, mayCoalesce,
                 Advance(d, at, position, Len(data), mayCoalesce))

\* UndoHistory::AppendAction.  startSequence is the caller's variable of that name.
AppendAction(d, at, position, data, mayCoalesce) ==
    AppendChecked([d EXCEPT !.savePoint = AppendSavePoint(d), !.detach = AppendDetach(d)],
                  at, position, data, mayCoalesce)


\* The closing of the current operation shared by BeginUndoAction and EndUndoAction:
\* a start record is made at currentAction if there is none, and it is marked so that
\* the next action does not coalesce with it.
CloseOperation(d) ==
    LET d1 == IF Slot(d, d.currentAction).at # "start"
                THEN [d EXCEPT !.actions = WriteSlot(d.actions, d.currentAction + 1, CreateStart),
                               !.currentAction = d.currentAction + 1,
                               !.maxAction = d.currentAction + 1]
                ELSE d
    IN [d1 EXCEPT !.actions[d1.currentAction + 1].mayCoalesce = FALSE]

\* UndoHistory::BeginUndoAction
BeginUndoAction(d) ==
    LET d1 == IF d.undoSequenceDepth = 0 THEN CloseOperation(d) ELSE d
    IN [d1 EXCEPT !.undoSequenceDepth = d.undoSequenceDepth + 1]

\* A faulty EndUndoAction that closes the operation at every depth.
EndUndoActionAtAnyDepth(d) ==
    CloseOperation([d EXCEPT !.undoSequenceDepth = d.undoSequenceDepth - 1])

\* UndoHistory::EndUndoAction
EndUndoAction(d) ==
    LET d1 == [d EXCEPT !.undoSequenceDepth = d.undoSequenceDepth - 1]
    IN IF d1.undoSequenceDepth = 0 THEN CloseOperation(d1) ELSE d1

\* UndoHistory::DeleteUndoHistory: the undo group depth, the detach point and the
\* scrap stack are left as they are.
DeleteUndoHistory(d) ==
    [d EXCEPT !.maxAction = 0, !.currentAction = 0,
              !.actions = WriteSlot(d.actions, 0, CreateStart),
              !.savePoint = 0, !.tentativePoint = -1]

\* UndoHistory::SetSavePoint
SetSavePoint(d) == [d EXCEPT !.savePoint = d.currentAction, !.detach = NoDetach]

\* UndoHistory::IsSavePoint
IsSavePoint(d) == d.savePoint = d.currentAction

\* UndoHistory::CanUndo
CanUndo(d) == d.currentAction > 0 /\ d.maxAction > 0

\* UndoHistory::CanRedo
CanRedo(d) == d.maxAction > d.currentAction

\* The first statement of StartUndo and TentativeSteps: drop a trailing start.
DropTrailingStart(d) ==
    IF Slot(d, d.currentAction).at = "start" /\ d.currentAction > 0
        THEN [d EXCEPT !.currentAction = d.currentAction - 1] ELSE d

\* The scan of StartUndo back to the start record of the operation.
RECURSIVE UndoScan(_, _)
UndoScan(d, act) ==
    IF Slot(d, act).at # "start" /\ act > 0 THEN UndoScan(d, act - 1) ELSE act

\* A StartUndo that counts no more than one step.
StartUndoOfOneStep(d) ==
    [d |-> DropTrailingStart(d),
     steps |-> IF UndoScan(DropTrailingStart(d), DropTrailingStart(d).currentAction)
                    < DropTrailingStart(d).currentAction
                THEN 1 ELSE 0]

\* UndoHistory::StartUndo.  The result is the document and the number of steps.
StartUndo(d) ==
    LET d1 == DropTrailingStart(d)
    IN [d |-> d1, steps |-> d1.currentAction - UndoScan(d1, d1.currentAction)]

\* UndoHistory::GetUndoStep
GetUndoStep(d) ==
    LET a == Slot(d, d.currentAction)
    IN [at |-> a.at, mayCoalesce |-> a.mayCoalesce, position |-> a.position,
        lenData |-> a.lenData,
        data |-> TextAt(d.scraps, d.scraps.current - a.lenData, a.lenData, d.wild)]

\* UndoHistory::CompletedUndoStep
CompletedUndoStep(d) ==
    [d EXCEPT !.scraps = MoveBack(d.scraps, Slot(d, d.currentAction).lenData),
              !.currentAction = d.currentAction - 1]

\* The scan of StartRedo forward to the next start record.
RECURSIVE RedoScan(_, _)
RedoScan(d, act) ==
    IF act < d.maxAction /\ Slot(d, act).at # "start" THEN RedoScan(d, act + 1) ELSE act

\* UndoHistory::StartRedo.  The result is the document and the number of steps.
StartRedo(d) ==
    LET d1 == IF d.currentAction < d.maxAction /\ Slot(d, d.currentAction).at = "start"
                THEN [d EXCEPT !.currentAction = d.currentAction + 1] ELSE d
    IN [d |-> d1, steps |-> RedoScan(d1, d1.currentAction) - d1.currentAction]

\* UndoHistory::GetRedoStep
GetRedoStep(d) ==
    LET a == Slot(d, d.currentAction)
    IN [at |-> a.at, mayCoalesce |-> a.mayCoalesce, position |-> a.position,
        lenData |-> a.lenData,
        data |-> TextAt(d.scraps, d.scraps.current, a.lenData, d.wild)]

\* UndoHistory::CompletedRedoStep
CompletedRedoStep(d) ==
    [d EXCEPT !.scraps = MoveForward(d.scraps, Slot(d, d.currentAction).lenData),
              !.currentAction = d.currentAction + 1]

\* -------------------------------------------------------------- LineVector
\* Partitioning::PartitionFromPosition as LineVector::LineFromPosition uses it: the
\* last line that starts at or before pos, and the last line for a pos at the end.
RECURSIVE LineSearch(_, _, _)
LineSearch(st, pos, line) ==
    IF line + 2 <= Len(st) - 1 /\ st[line + 2] <= pos
        THEN LineSearch(st, pos, line + 1) ELSE line

LineFromPosition(st, pos) == LineSearch(st, pos, 0)

\* A faulty InsertText that moves the start of `line` too.
LvInsertTextFromLine(st, line, delta) ==
    [k \in 1..Len(st) |-> IF k - 1 >= line /\ k > 1 THEN st[k] + delta ELSE st[k]]

\* LineVector::InsertText: the lines after `line` move by delta.
LvInsertText(st, line, delta) ==
    [k \in 1..Len(st) |-> IF k - 1 > line THEN st[k] + delta ELSE st[k]]

\* LineVector::InsertLine: a new line `line` starts at position.
LvInsertLine(st, line, position) == InsertFromArray(st, line, <<position>>)

\* A faulty RemoveLine that leaves the line in place.
LvRemoveLineNever(st, line) == st

\* LineVector::RemoveLine: line `line` joins the line before it.
LvRemoveLine(st, line) == DeleteRange(st, line, 1)

\* LineVector::SetLineStart
LvSetLineStart(st, line, position) == SetValueAt(st, line, position)

\* LineVector::Init: one empty line.
LvInit == <<0, 0>>

\* SplitVector::ValueAt on the text: the byte at position, and the zero byte (here
\* the string "0") outside the text.
ValueAt(text, position) ==
    IF position < 0 \/ position >= Len(text) THEN "0" ELSE text[position + 1]

\* -------------------------------------------------------------- CellBuffer
\* The loop of BasicInsertString over the inserted bytes: lv is the line starts,
\* lineInsert the next line to insert, chPrev the byte before byte i.
RECURSIVE InsertLines(_, _, _, _, _, _)
InsertLines(lv, s, position, i, lineInsert, chPrev) ==
    IF i >= Len(s) THEN [lv |-> lv, lineInsert |-> lineInsert]
    ELSE LET ch == s[i + 1]
         IN IF ch = "\r"
                THEN InsertLines(LvInsertLine(lv, lineInsert, position + i + 1), s, position,
                                 i + 1, lineInsert + 1, ch)
            ELSE IF ch = "\n"
                THEN IF chPrev = "\r"
                        THEN InsertLines(LvSetLineStart(lv, lineInsert - 1, position + i + 1),
                                         s, position, i + 1, lineInsert, ch)
                        ELSE InsertLines(LvInsertLine(lv, lineInsert, position + i + 1), s,
                                         position, i + 1, lineInsert + 1, ch)
            ELSE InsertLines(lv, s, position, i + 1, lineInsert, ch)

\* CellBuffer::BasicInsertString: the text and the line starts after s is inserted
\* at position.  A line feed put after a carriage return joins it, a byte put between
\* a carriage return and its line feed splits the pair.
BasicInsertString(d, position, s) ==
    IF Len(s) = 0 THEN d
    ELSE
    LET chAfter == ValueAt(d.substance, position)
        text == InsertFromArray(d.substance, position, s)
        lineInsert == LineFromPosition(d.starts, position) + 1
        lv1 == LvInsertText(d.starts, lineInsert - 1, Len(s))
        chPrev == ValueAt(text, position - 1)
        split == chPrev = "\r" /\ chAfter = "\n"
        lv2 == IF split THEN LvInsertLine(lv1, lineInsert, position) ELSE lv1
        r == InsertLines(lv2, s, position, 0, IF split THEN lineInsert + 1 ELSE lineInsert, chPrev)
        lv3 == IF chAfter = "\n" /\ s[Len(s)] = "\r"
                  THEN LvRemoveLine(r.lv, r.lineInsert - 1) ELSE r.lv
    IN [d EXCEPT !.substance = text, !.starts = lv3,
                 !.style = InsertFromArray(d.style, position, [k \in 1..Len(s) |-> 0]),
                 !.broken = @ \/ position < 0 \/ position > Len(d.substance)]

\* The loop of BasicDeleteChars over the deleted bytes.
RECURSIVE RemoveLines(_, _, _, _, _, _, _)
RemoveLines(lv, text, position, deleteLength, i, lineRemove, ignoreNL) ==
    IF i >= deleteLength THEN lv
    ELSE LET ch == ValueAt(text, position + i)
             chNext == ValueAt(text, position + i + 1)
         IN IF ch = "\r"
                THEN RemoveLines(IF chNext # "\n" THEN LvRemoveLine(lv, lineRemove) ELSE lv,
                                 text, position, deleteLength, i + 1, lineRemove, ignoreNL)
            ELSE IF ch = "\n"
                THEN RemoveLines(IF ignoreNL THEN lv ELSE LvRemoveLine(lv, lineRemove),
                                 text, position, deleteLength, i + 1, lineRemove, FALSE)
            ELSE RemoveLines(lv, text, position, deleteLength, i + 1, lineRemove, ignoreNL)

\* CellBuffer::BasicDeleteChars: the text and the line starts after deleteLength
\* bytes are removed at position.
BasicDeleteChars(d, position, deleteLength) ==
    IF deleteLength = 0 THEN d
    ELSE IF position = 0 /\ deleteLength = Len(d.substance)
        THEN [d EXCEPT !.substance = <<>>, !.style = <<>>, !.starts = LvInit]
    ELSE
    LET text == d.substance
        lineRemove == LineFromPosition(d.starts, position) + 1
        lv1 == LvInsertText(d.starts, lineRemove - 1, -deleteLength)
        chBefore == ValueAt(text, position - 1)
        moveBack == chBefore = "\r" /\ ValueAt(text, position) = "\n"
        lv2 == IF moveBack THEN LvSetLineStart(lv1, lineRemove, position) ELSE lv1
        lr == IF moveBack THEN lineRemove + 1 ELSE lineRemove
        lv3 == RemoveLines(lv2, text, position, deleteLength, 0, lr, moveBack)
        chAfter == ValueAt(text, position + deleteLength)
        lv4 == IF chBefore = "\r" /\ chAfter = "\n"
                  THEN LvSetLineStart(LvRemoveLine(lv3, lr - 1), lr - 1, position + 1)
                  ELSE lv3
    IN [d EXCEPT !.substance = DeleteRange(text, position, deleteLength), !.starts = lv4,
                 !.style = DeleteRange(d.style, position, deleteLength),
                 !.broken = @ \/ position < 0 \/ position + deleteLength > Len(text)]

\* CellBuffer::InsertString: record the insertion when undo is collected, then insert.
CbInsertString(d, position, s) ==
    IF d.readOnly THEN d
    ELSE BasicInsertString(IF d.collectingUndo
                               THEN AppendAction(d, "insert", position, s, TRUE)
                               ELSE d,
                           position, s)

\* CellBuffer::DeleteChars: record the removed bytes when undo is collected, then delete.
CbDeleteChars(d, position, deleteLength) ==
    IF d.readOnly THEN d
    ELSE BasicDeleteChars(IF d.collectingUndo
                              THEN AppendAction(d, "remove", position,
                                       SubSeq(d.substance, position + 1, position + deleteLength),
                                       TRUE)
                              ELSE d,
                          position, deleteLength)

\* The change that undoes the record actionStep.
UndoChange(d, actionStep) ==
    IF actionStep.at = "insert"
        THEN BasicDeleteChars(d, actionStep.position, actionStep.lenData)
    ELSE IF actionStep.at = "remove"
        THEN BasicInsertString(d, actionStep.position, actionStep.data)
    ELSE d

\* CellBuffer::PerformUndoStep: the inverse of the record at currentAction.
PerformUndoStep(d) ==
    CompletedUndoStep(
        UndoChange([d EXCEPT !.broken = @ \/ ~TextInside(d.scraps,
                                  d.scraps.current - Slot(d, d.currentAction).lenData,
                                  Slot(d, d.currentAction).lenData)],
                   GetUndoStep(d)))

\* The change that the record actionStep made.
RedoChange(d, actionStep) ==
    IF actionStep.at = "insert"
        THEN BasicInsertString(d, actionStep.position, actionStep.data)
    ELSE IF actionStep.at = "remove"
        THEN BasicDeleteChars(d, actionStep.position, actionStep.lenData)
    ELSE d

\* CellBuffer::PerformRedoStep: the record at currentAction again.
PerformRedoStep(d) ==
    CompletedRedoStep(
        RedoChange([d EXCEPT !.broken = @ \/ ~TextInside(d.scraps, d.scraps.current,
                                  Slot(d, d.currentAction).lenData)],
                   GetRedoStep(d)))

\* CellBuffer::SetStyleAt: TRUE when the style byte at position changes.
CbStyleChanges(d, position, styleValue) ==
    position >= 0 /\ position < Len(d.style) /\ d.style[position + 1] # styleValue

\* A faulty SetStyleAt that records the style change in the undo history.
CbSetStyleAtRecorded(d, position, styleValue) ==
    AppendAction([d EXCEPT !.style = SetValueAt(d.style, position, styleValue)],
                 "container", position, <<>>, FALSE)

\* CellBuffer::SetStyleAt
CbSetStyleAt(d, position, styleValue) ==
    [d EXCEPT !.style = SetValueAt(d.style, position, styleValue)]

\* CellBuffer::SetStyleFor, the value it returns: some style byte of the range differs
\* from styleValue.
CbStyleForChanges(d, position, lengthStyle, styleValue) ==
    \E k \in position..(position + lengthStyle - 1) : CbStyleChanges(d, k, styleValue)

\* CellBuffer::SetStyleFor, the loop over the range.
RECURSIVE CbSetStyleFor(_, _, _, _)
CbSetStyleFor(d, position, lengthStyle, styleValue) ==
    IF lengthStyle <= 0 THEN d
    ELSE CbSetStyleFor(CbSetStyleAt(d, position, styleValue), position + 1,
                       lengthStyle - 1, styleValue)

\* ---------------------------------------------------------------- Document
\* The persistent fields of a document, without the record of the call in progress.
Core(d) ==
    [substance |-> d.substance, style |-> d.style, starts |-> d.starts,
     readOnly |-> d.readOnly,
     collectingUndo |-> d.collectingUndo, actions |-> d.actions,
     maxAction |-> d.maxAction, currentAction |-> d.currentAction,
     undoSequenceDepth |-> d.undoSequenceDepth, savePoint |-> d.savePoint,
     tentativePoint |-> d.tentativePoint, detach |-> d.detach, scraps |-> d.scraps,
     enteredModification |-> d.enteredModification,
     enteredStyling |-> d.enteredStyling,
     enteredReadOnlyCount |-> d.enteredReadOnlyCount,
     endStyled |-> d.endStyled,
     insertionSet |-> d.insertionSet, insertion |-> d.insertion,
     broken |-> d.broken]

\* Document::LinesTotal
LinesTotal(d) == Len(d.starts) - 1

\* Document::Length
Length(d) == Len(d.substance)

\* Document::LineStart
LineStart(d, line) ==
    IF line < 0 THEN 0
    ELSE IF line >= LinesTotal(d) THEN Length(d)
    ELSE d.starts[line + 1]

\* A DocModification as a watcher receives it: the modification type, who performed
\* it, the range, the grouping flags, the lines added and the bytes, together with
\* the text of the document at the moment of the notification.
DocModification(d, kind, by, position, length, flags, linesAdded, text) ==
    [kind |-> kind, by |-> by, position |-> position, length |-> length,
     flags |-> flags, linesAdded |-> linesAdded, text |-> text, doc |-> d.substance]

RECURSIVE WatcherCall(_)

\* The return of a watcher's callback that left the document r, into the call that
\* was notifying on the document d: the callback is recorded, and the variables of
\* the notifying call are its own again.
WatcherReturn(d, r) ==
    [r EXCEPT !.inWatcher = FALSE,
              !.during = d.during,
              !.ret = d.ret,
              !.startSequence = d.startSequence,
              !.nested = Append(@, [call |-> d.watch, during |-> d.during,
                                    ret |-> r.ret, changed |-> Core(r) # Core(d)])]

\* The loop over the watchers in NotifyModified, NotifyModifyAttempt and
\* NotifySavePoint, after the notification was noted: the watcher may call back.
WatcherNotified(d) ==
    IF d.inWatcher \/ d.watch = "none" THEN d
    ELSE WatcherReturn(d, WatcherCall([d EXCEPT !.inWatcher = TRUE]))

\* The delivery of one notification to the watcher.
Deliver(d, note) ==
    WatcherNotified([d EXCEPT !.notes = Append(@, note), !.during = note.kind])

\* Document::NotifyModified with the DocModification its caller builds.
NotifyModified(d, kind, by, position, length, flags, linesAdded, text) ==
    Deliver(d, DocModification(d, kind, by, position, length, flags, linesAdded, text))

\* Document::NotifyModifyAttempt
NotifyModifyAttempt(d) ==
    Deliver(d, DocModification(d, "MODIFYATTEMPT", "", 0, 0, {}, 0, <<>>))

\* Document::NotifySavePoint
NotifySavePoint(d, atSavePoint) ==
    Deliver(d, DocModification(d, "SAVEPOINT", "", 0, 0,
                               IF atSavePoint THEN {"ATSAVEPOINT"} ELSE {}, 0, <<>>))

\* Document::ModifiedAt
ModifiedAt(d, pos) ==
    IF d.endStyled > pos THEN [d EXCEPT !.endStyled = pos] ELSE d

\* A faulty CheckReadOnly that tells nobody.
CheckReadOnlySilent(d) == d

\* Document::CheckReadOnly
CheckReadOnly(d) ==
    IF d.readOnly /\ d.enteredReadOnlyCount = 0
        THEN [NotifyModifyAttempt([d EXCEPT !.enteredReadOnlyCount = @ + 1])
                 EXCEPT !.enteredReadOnlyCount = @ - 1]
        ELSE d

\* The save point notification of InsertString and DeleteChars: the document was at
\* the save point before the edit and the edit was recorded.
NotifySavePointLeft(d, startSavePoint) ==
    IF startSavePoint /\ d.collectingUndo THEN NotifySavePoint(d, ~startSavePoint) ELSE d

\* The grouping flag of the notification of an edit.
StartFlags(startSequence) == IF startSequence THEN {"STARTACTION"} ELSE {}

\* Document::DeleteChars from its second notification: d is the document after
\* cb.DeleteChars and the save point notification; text is what cb.DeleteChars returned.
DeleteCharsNotify(d, pos, len, prevLinesTotal, text) ==
    NotifyModified(
        ModifiedAt(d, IF pos < Length(d) \/ pos = 0 THEN pos ELSE pos - 1),
        "DELETETEXT", "USER", pos, len, StartFlags(d.startSequence),
        LinesTotal(d) - prevLinesTotal, text)

\* Document::DeleteChars from cb.DeleteChars: d is the document after the first
\* notification.  cb.DeleteChars returns the bytes kept in the undo history.
DeleteCharsStore(d, pos, len) ==
    DeleteCharsNotify(
        NotifySavePointLeft(CbDeleteChars([d EXCEPT !.startSequence = FALSE], pos, len),
                            IsSavePoint(d)),
        pos, len, LinesTotal(d),
        IF d.readOnly \/ ~d.collectingUndo THEN <<>>
        ELSE SubSeq(d.substance, pos + 1, pos + len))

\* The value DeleteChars returns when it went past its checks.
DeleteCharsReturn(d) == [d EXCEPT !.ret = ~d.readOnly]

\* A faulty DeleteChars that does not look at enteredModification.
DeleteCharsReentrant(d, pos, len) ==
    DeleteCharsReturn(
        [(IF ~d.readOnly
            THEN DeleteCharsStore(
                     NotifyModified([d EXCEPT !.enteredModification = @ + 1],
                                    "BEFOREDELETE", "USER", pos, len, {}, 0, <<>>),
                     pos, len)
            ELSE [d EXCEPT !.enteredModification = @ + 1])
         EXCEPT !.enteredModification = @ - 1])

\* Document::DeleteChars after CheckReadOnly.
DeleteCharsChecked(d, pos, len) ==
    IF d.enteredModification # 0 THEN [d EXCEPT !.ret = FALSE]
    ELSE DeleteCharsReturn(
            [(IF ~d.readOnly
                THEN DeleteCharsStore(
                         NotifyModified([d EXCEPT !.enteredModification = @ + 1],
                                        "BEFOREDELETE", "USER", pos, len, {}, 0, <<>>),
                         pos, len)
                ELSE [d EXCEPT !.enteredModification = @ + 1])
             EXCEPT !.enteredModification = @ - 1])

\* Document::DeleteChars.  The value returned is the field ret of the result.
DeleteChars(d, pos, len) ==
    IF pos < 0 THEN [d EXCEPT !.ret = FALSE]
    ELSE IF len <= 0 THEN [d EXCEPT !.ret = FALSE]
    ELSE IF pos + len > Length(d) THEN [d EXCEPT !.ret = FALSE]
    ELSE DeleteCharsChecked(CheckReadOnly(d), pos, len)

\* Document::InsertString from its last notification: d is the document after
\* cb.InsertString and the save point notification.
InsertStringNotify(d, position, s, prevLinesTotal) ==
    NotifyModified(ModifiedAt(d, position), "INSERTTEXT", "USER", position, Len(s),
                   StartFlags(d.startSequence), LinesTotal(d) - prevLinesTotal, s)

\* The end of Document::InsertString: the replacement text is freed.
InsertStringReturn(d, s) ==
    [d EXCEPT !.insertion = IF d.insertionSet THEN <<>> ELSE @,
              !.enteredModification = @ - 1,
              !.ret = Len(s)]

\* Document::InsertString from cb.InsertString: d is the document after the
\* BEFOREINSERT notification.
InsertStringStore(d, position, s) ==
    InsertStringReturn(
        InsertStringNotify(
            NotifySavePointLeft(CbInsertString([d EXCEPT !.startSequence = FALSE], position, s),
                                IsSavePoint(d)),
            position, s, LinesTotal(d)),
        s)

\* Document::InsertString with the text that is inserted: d is the document after the
\* INSERTCHECK notification.
InsertStringBefore(d, position, s) ==
    InsertStringStore(
        NotifyModified(d, "BEFOREINSERT", "USER", position, Len(s), {}, 0, s),
        position, s)

\* Document::InsertString after the INSERTCHECK notification: the text is replaced
\* when ChangeInsertion was called.
InsertStringChosen(d, position, s) ==
    InsertStringBefore(d, position, IF d.insertionSet THEN d.insertion ELSE s)

\* A faulty InsertString that forgets to clear insertionSet before INSERTCHECK.
InsertStringKeepsInsertion(d, position, s) ==
    IF d.readOnly THEN [d EXCEPT !.ret = 0]
    ELSE IF d.enteredModification # 0 THEN [d EXCEPT !.ret = 0]
    ELSE InsertStringChosen(
            NotifyModified([d EXCEPT !.enteredModification = @ + 1],
                           "INSERTCHECK", "", position, Len(s), {}, 0, s),
            position, s)

\* Document::InsertString after CheckReadOnly.
InsertStringChecked(d, position, s) ==
    IF d.readOnly THEN [d EXCEPT !.ret = 0]
    ELSE IF d.enteredModification # 0 THEN [d EXCEPT !.ret = 0]
    ELSE InsertStringChosen(
            NotifyModified([d EXCEPT !.enteredModification = @ + 1,
                                     !.insertionSet = FALSE,
                                     !.insertion = <<>>],
                           "INSERTCHECK", "", position, Len(s), {}, 0, s),
            position, s)

\* Document::InsertString.  The value returned is the field ret of the result.
InsertString(d, position, s) ==
    IF Len(s) <= 0 THEN [d EXCEPT !.ret = 0]
    ELSE InsertStringChecked(CheckReadOnly(d), position, s)

\* The document d as a call has left it, about to be called again.
Returned(d) ==
    [d EXCEPT !.notes = <<>>, !.nested = <<>>, !.inWatcher = FALSE, !.during = "",
              !.ret = 0, !.startSequence = FALSE]

\* The eol modes of ConvertLineEnds.
EolModes == {"SC_EOL_CRLF", "SC_EOL_CR", "SC_EOL_LF"}

\* The replacement of a lone terminator in ConvertLineEnds: pos += InsertString(pos,
\* s, 1); DeleteChars(pos, 1); pos--; and the pos++ of the loop.
InsertThenDelete(d, pos, s) ==
    LET r == InsertString(d, pos, s)
    IN [doc |-> DeleteChars(Returned(r), pos + r.ret, 1), pos |-> pos + r.ret - 1 + 1]

\* pos += InsertString(position, s, 1) in ConvertLineEnds, and the pos++ of the loop.
InsertAndSkip(d, pos, position, s) ==
    LET r == InsertString(d, position, s)
    IN [doc |-> r, pos |-> pos + r.ret + 1]

\* One iteration of the loop of Document::ConvertLineEnds at pos, with the pos++ that
\* ends it: the document and pos after it.
ConvertLineEndsStep(d, pos, eolModeSet) ==
    IF ValueAt(d.substance, pos) = "\r"
        THEN IF ValueAt(d.substance, pos + 1) = "\n"
                THEN IF eolModeSet = "SC_EOL_CR"
                        THEN [doc |-> DeleteChars(d, pos + 1, 1), pos |-> pos + 1]
                     ELSE IF eolModeSet = "SC_EOL_LF"
                        THEN [doc |-> DeleteChars(d, pos, 1), pos |-> pos + 1]
                     ELSE [doc |-> d, pos |-> pos + 1 + 1]
                ELSE IF eolModeSet = "SC_EOL_CRLF"
                        THEN InsertAndSkip(d, pos, pos + 1, <<"\n">>)
                     ELSE IF eolModeSet = "SC_EOL_LF"
                        THEN InsertThenDelete(d, pos, <<"\n">>)
                     ELSE [doc |-> d, pos |-> pos + 1]
    ELSE IF ValueAt(d.substance, pos) = "\n"
        THEN IF eolModeSet = "SC_EOL_CRLF"
                THEN InsertAndSkip(d, pos, pos, <<"\r">>)
             ELSE IF eolModeSet = "SC_EOL_CR"
                THEN InsertThenDelete(d, pos, <<"\r">>)
             ELSE [doc |-> d, pos |-> pos + 1]
    ELSE [doc |-> d, pos |-> pos + 1]

\* UndoGroup's constructor and destructor around the loop of ConvertLineEnds.
UndoGroupBegin(d) == IF d.collectingUndo THEN BeginUndoAction(d) ELSE d
UndoGroupEnd(d, groupNeeded) == IF groupNeeded THEN EndUndoAction(d) ELSE d

\* Document::ChangeInsertion
ChangeInsertion(d, s) == [d EXCEPT !.insertionSet = TRUE, !.insertion = s]

\* Document::StartStyling
StartStyling(d, position) == [d EXCEPT !.endStyled = position]

\* The notification of SetStyleFor and SetStyles, sent when a style byte changed.
NotifyStyleChange(d, changed, position, length) ==
    IF changed
        THEN NotifyModified(d, "CHANGESTYLE", "USER", position, length, {}, 0, <<>>)
        ELSE d

\* The end of Document::SetStyleFor.
SetStyleForDone(d, length) ==
    [d EXCEPT !.endStyled = @ + length, !.enteredStyling = @ - 1, !.ret = TRUE]

\* Document::SetStyleFor.  The value returned is the field ret of the result.
SetStyleFor(d, length, styleValue) ==
    IF d.enteredStyling # 0 THEN [d EXCEPT !.ret = FALSE]
    ELSE SetStyleForDone(
            NotifyStyleChange(
                CbSetStyleFor([d EXCEPT !.enteredStyling = @ + 1], d.endStyled, length,
                              styleValue),
                CbStyleForChanges(d, d.endStyled, length, styleValue),
                d.endStyled, length),
            length)

\* One pass of the loop of Document::SetStyles over the byte at endStyled: lp holds
\* didChange, startMod and endMod.
SetStylesVars(d, lp, changes) ==
    IF changes
        THEN [didChange |-> TRUE,
              startMod |-> IF ~lp.didChange THEN d.endStyled ELSE lp.startMod,
              endMod |-> d.endStyled]
        ELSE lp

\* The loop of Document::SetStyles, and its end.
RECURSIVE SetStylesLoop(_, _, _, _)
SetStylesLoop(d, styles, iPos, lp) ==
    IF iPos >= Len(styles)
        THEN [NotifyStyleChange(d, lp.didChange, lp.startMod, lp.endMod - lp.startMod + 1)
                EXCEPT !.enteredStyling = @ - 1, !.ret = TRUE]
        ELSE SetStylesLoop(
                [CbSetStyleAt(d, d.endStyled, styles[iPos + 1])
                    EXCEPT !.endStyled = @ + 1,
                           !.broken = @ \/ ~(d.endStyled < Length(d))],
                styles, iPos + 1,
                SetStylesVars(d, lp, CbStyleChanges(d, d.endStyled, styles[iPos + 1])))

\* Document::SetStyles.  The value returned is the field ret of the result.
SetStyles(d, styles) ==
    IF d.enteredStyling # 0 THEN [d EXCEPT !.ret = FALSE]
    ELSE SetStylesLoop([d EXCEPT !.enteredStyling = @ + 1], styles, 0,
                       [didChange |-> FALSE, startMod |-> 0, endMod |-> 0])

\* The variables of the loop of Document::Undo before its first step.
UndoLoopInit ==
    [newPos |-> -1, multiLine |-> FALSE,
     coalescedRemovePos |-> -1, coalescedRemoveLen |-> 0,
     prevRemoveActionPos |-> -1, prevRemoveActionLen |-> 0]

\* The caret bookkeeping of one step of Document::Undo for the record `action`.
UndoLoopVars(lp, action, linesAdded) ==
    LET joins == lp.coalescedRemoveLen > 0
                 /\ (action.position = lp.prevRemoveActionPos
                     \/ action.position = lp.prevRemoveActionPos + lp.prevRemoveActionLen)
    IN IF action.at = "remove"
        THEN [newPos |-> IF joins
                            THEN lp.coalescedRemovePos + lp.coalescedRemoveLen + action.lenData
                            ELSE action.position + action.lenData,
              multiLine |-> lp.multiLine \/ linesAdded # 0,
              coalescedRemovePos |-> IF joins THEN lp.coalescedRemovePos ELSE action.position,
              coalescedRemoveLen |-> IF joins THEN lp.coalescedRemoveLen + action.lenData
                                               ELSE action.lenData,
              prevRemoveActionPos |-> action.position,
              prevRemoveActionLen |-> action.lenData]
       ELSE IF action.at = "insert"
        THEN [UndoLoopInit EXCEPT !.newPos = action.position,
                                  !.multiLine = lp.multiLine \/ linesAdded # 0]
       ELSE IF action.at = "container"
        THEN IF ~action.mayCoalesce
                THEN [UndoLoopInit EXCEPT !.newPos = lp.newPos,
                                          !.multiLine = lp.multiLine \/ linesAdded # 0]
                ELSE [lp EXCEPT !.multiLine = lp.multiLine \/ linesAdded # 0]
       ELSE \* a start record, which only TentativeUndo steps over
            [lp EXCEPT !.newPos = action.position,
                       !.multiLine = lp.multiLine \/ linesAdded # 0]

\* Grouping flags that never tell of more than one step.
StepFlagsOfOneStep(step, steps, multiLine) ==
    (IF step = steps - 1 THEN {"LASTSTEPINUNDOREDO"} ELSE {})
    \cup (IF step = steps - 1 /\ multiLine THEN {"MULTILINEUNDOREDO"} ELSE {})

\* Faulty grouping flags that mark every step as the last one.
StepFlagsOnEveryStep(step, steps, multiLine) ==
    (IF steps > 1 THEN {"MULTISTEPUNDOREDO"} ELSE {})
    \cup {"LASTSTEPINUNDOREDO"}
    \cup (IF step = steps - 1 /\ multiLine THEN {"MULTILINEUNDOREDO"} ELSE {})

\* The grouping flags of the notification that ends step `step` of `steps`.
StepFlags(step, steps, multiLine) ==
    (IF steps > 1 THEN {"MULTISTEPUNDOREDO"} ELSE {})
    \cup (IF step = steps - 1 THEN {"LASTSTEPINUNDOREDO"} ELSE {})
    \cup (IF step = steps - 1 /\ multiLine THEN {"MULTILINEUNDOREDO"} ELSE {})

\* A faulty choice of the first notification of a step, which announces the change
\* the record made and not the one the step makes.
BeforeKindOfRecord(inserts, action) ==
    IF action.at = "insert" THEN "BEFOREINSERT"
    ELSE IF action.at = "container" THEN "CONTAINER"
    ELSE "BEFOREDELETE"

\* The modification type of the first notification of a step of Undo or Redo for the
\* record `action`; `inserts` is the type of the records whose step inserts text:
\* "remove" when undoing, "insert" when redoing.
BeforeKind(inserts, action) ==
    IF action.at = inserts THEN "BEFOREINSERT"
    ELSE IF action.at = "container" THEN "CONTAINER"
    ELSE "BEFOREDELETE"

\* The first notification of a step of Undo (by = "UNDO") or Redo (by = "REDO").
NotifyBeforeStep(d, by, inserts, action) ==
    NotifyModified(d, BeforeKind(inserts, action), by, action.position,
                   IF action.at = "container" THEN 0 ELSE action.lenData, {}, 0,
                   IF action.at = "container" THEN <<>> ELSE action.data)

\* The modification type of the second notification of a step.
StepKind(inserts, action) ==
    IF action.at = inserts THEN "INSERTTEXT"
    ELSE IF action.at \in {"insert", "remove"} THEN "DELETETEXT"
    ELSE "NONE"

\* Document::ModifiedAt as a step of Undo and Redo calls it.
StepModifiedAt(d, action) ==
    IF action.at # "container" THEN ModifiedAt(d, action.position) ELSE d

RECURSIVE UndoSteps(_, _, _, _)

\* One step of the loop of Document::Undo from its second notification: d is the
\* document after cb.PerformUndoStep.
UndoStepDone(d, step, steps, lp, action, prevLinesTotal) ==
    LET linesAdded == LinesTotal(d) - prevLinesTotal
        lp1 == UndoLoopVars(lp, action, linesAdded)
    IN UndoSteps(
           NotifyModified(d, StepKind("remove", action), "UNDO", action.position,
                          action.lenData, StepFlags(step, steps, lp1.multiLine),
                          linesAdded, action.data),
           step + 1, steps, lp1)

\* One step of the loop of Document::Undo for the record `action`.
UndoStep(d, step, steps, lp, action) ==
    UndoStepDone(
        StepModifiedAt(PerformUndoStep(NotifyBeforeStep(d, "UNDO", "remove", action)), action),
        step, steps, lp, action, LinesTotal(d))

\* The loop of Document::Undo: one record is undone per step, between its two
\* notifications.  newPos is left in the field ret.
UndoSteps(d, step, steps, lp) ==
    IF step >= steps THEN [d EXCEPT !.ret = lp.newPos]
    ELSE UndoStep(d, step, steps, lp, GetUndoStep(d))

\* The end of Undo, Redo and TentativeUndo: the save point notification.
NotifySavePointMoved(d, startSavePoint) ==
    IF startSavePoint # IsSavePoint(d) THEN NotifySavePoint(d, IsSavePoint(d)) ELSE d

\* Document::Undo after CheckReadOnly.
UndoChecked(d) ==
    IF d.enteredModification = 0 /\ d.collectingUndo
        THEN IF ~d.readOnly
            THEN [NotifySavePointMoved(
                      UndoSteps([StartUndo(d).d EXCEPT !.enteredModification = @ + 1],
                                0, StartUndo(d).steps, UndoLoopInit),
                      IsSavePoint(d))
                    EXCEPT !.enteredModification = @ - 1]
            ELSE d
        ELSE d

\* Document::Undo.  The value returned (the position of the last change, -1 when
\* nothing was undone) is the field ret of the result.
Undo(d) == UndoChecked(CheckReadOnly([d EXCEPT !.ret = -1]))

RECURSIVE RedoSteps(_, _, _, _, _)

\* One step of the loop of Document::Redo from its second notification.
RedoStepDone(d, step, steps, multiLine, newPos, action, prevLinesTotal) ==
    LET linesAdded == LinesTotal(d) - prevLinesTotal
    IN RedoSteps(
           NotifyModified(d, StepKind("insert", action), "REDO", action.position,
                          action.lenData,
                          StepFlags(step, steps, multiLine \/ linesAdded # 0),
                          linesAdded, action.data),
           step + 1, steps, multiLine \/ linesAdded # 0,
           IF action.at = "insert" THEN action.position + action.lenData
           ELSE IF action.at = "container" THEN newPos
           ELSE action.position)

\* One step of the loop of Document::Redo for the record `action`.
RedoStep(d, step, steps, multiLine, newPos, action) ==
    RedoStepDone(
        StepModifiedAt(PerformRedoStep(NotifyBeforeStep(d, "REDO", "insert", action)), action),
        step, steps, multiLine, newPos, action, LinesTotal(d))

\* The loop of Document::Redo.  newPos is left in the field ret.
RedoSteps(d, step, steps, multiLine, newPos) ==
    IF step >= steps THEN [d EXCEPT !.ret = newPos]
    ELSE RedoStep(d, step, steps, multiLine, newPos, GetRedoStep(d))

\* Document::Redo after CheckReadOnly.
RedoChecked(d) ==
    IF d.enteredModification = 0 /\ d.collectingUndo
        THEN IF ~d.readOnly
            THEN [NotifySavePointMoved(
                      RedoSteps([StartRedo(d).d EXCEPT !.enteredModification = @ + 1],
                                0, StartRedo(d).steps, FALSE, -1),
                      IsSavePoint(d))
                    EXCEPT !.enteredModification = @ - 1]
            ELSE d
        ELSE d

\* Document::Redo.  The value returned is the field ret of the result.
Redo(d) == RedoChecked(CheckReadOnly([d EXCEPT !.ret = -1]))

\* UndoHistory::TentativeStart
TentativeStart(d) == [d EXCEPT !.tentativePoint = d.currentAction]

\* UndoHistory::TentativeCommit: the history is truncated at currentAction.
TentativeCommit(d) ==
    [d EXCEPT !.tentativePoint = -1, !.maxAction = d.currentAction,
              !.actions = Take(d.actions, d.currentAction + 1)]

\* UndoHistory::TentativeActive
TentativeActive(d) == d.tentativePoint >= 0

\* UndoHistory::TentativeSteps.  The result is the document and the number of steps.
TentativeSteps(d) ==
    LET d1 == DropTrailingStart(d)
    IN [d |-> d1,
        steps |-> IF d1.tentativePoint >= 0 THEN d1.currentAction - d1.tentativePoint ELSE -1]

\* Document::TentativeUndo after CheckReadOnly.  Its loop is the loop of
\* Document::Undo without the caret bookkeeping.
TentativeUndoChecked(d) ==
    IF d.enteredModification = 0
        THEN IF ~d.readOnly
            THEN [TentativeCommit(
                      NotifySavePointMoved(
                          UndoSteps([TentativeSteps(d).d EXCEPT !.enteredModification = @ + 1],
                                    0, TentativeSteps(d).steps, UndoLoopInit),
                          IsSavePoint(d)))
                    EXCEPT !.enteredModification = @ - 1]
            ELSE d
        ELSE d

\* Document::TentativeUndo
TentativeUndo(d) ==
    IF ~TentativeActive(d) THEN d ELSE TentativeUndoChecked(CheckReadOnly(d))

\* Document::SetSavePoint
DocSetSavePoint(d) == NotifySavePoint(SetSavePoint(d), TRUE)

\* The text a watcher replaces an insertion with.
ChangeText == <<"\n", "\n">>

\* What the watcher of the call in progress does when it is notified: nothing, or one
\* call back into the document.  A callback is not itself observed by the watcher.
WatcherCall(d) ==
    CASE d.watch = "InsertString" -> InsertString(d, 0, <<"a">>)
      [] d.watch = "DeleteChars" -> DeleteChars(d, 0, 1)
      [] d.watch = "Undo" -> Undo(d)
      [] d.watch = "Redo" -> Redo(d)
      [] d.watch = "SetReadOnly" -> [d EXCEPT !.readOnly = FALSE]
      [] d.watch = "ChangeInsertion" ->
            IF d.during = "INSERTCHECK" THEN ChangeInsertion(d, ChangeText) ELSE d
      [] d.watch = "ChangeInsertionLate" ->
            IF d.during # "INSERTCHECK" THEN ChangeInsertion(d, ChangeText) ELSE d

\* ------------------------------------------------------------ Partitioning
\* A Partitioning is the sequence of the starts of its partitions followed by the
\* total length; partition i is at index i + 1.
\* Partitioning::Partitions
Partitions(st) == Len(st) - 1

\* Partitioning::PositionFromPartition: 0 for a partition that does not exist.
PositionFromPartition(st, partition) ==
    IF partition < 0 \/ partition >= Len(st) THEN 0 ELSE st[partition + 1]

\* The search of PartitionFromPosition: the last partition from `partition` down
\* that starts at or before pos.
RECURSIVE PartitionSearch(_, _, _)
PartitionSearch(st, pos, partition) ==
    IF partition <= 0 THEN 0
    ELSE IF st[partition + 1] <= pos THEN partition
    ELSE PartitionSearch(st, pos, partition - 1)

\* Partitioning::PartitionFromPosition: the partition that holds pos, the last one
\* for the positions from the total length on.
PartitionFromPosition(st, pos) ==
    IF Len(st) <= 1 THEN 0
    ELSE IF pos >= st[Len(st)] THEN Partitions(st) - 1
    ELSE PartitionSearch(st, pos, Partitions(st) - 1)

\* Partitioning::InsertPartition
InsertPartition(st, partition, pos) == InsertFromArray(st, partition, <<pos>>)

\* Partitioning::RemovePartition
RemovePartition(st, partition) == DeleteRange(st, partition, 1)

\* Partitioning::InsertText: the starts after partitionInsert move by delta.
InsertText(st, partitionInsert, delta) ==
    [k \in 1..Len(st) |-> IF k - 1 > partitionInsert THEN st[k] + delta ELSE st[k]]

\* --------------------------------------------------------------- RunStyles
\* A RunStyles rs has the Partitioning rs.starts and the values rs.styles, one for
\* each run and one unused after them.
\* RunStyles::RunStyles and RunStyles::DeleteAll
RunStylesInit == [starts |-> <<0, 0>>, styles |-> <<0, 0>>]

\* SplitVector<int>::ValueAt on the values: 0 outside them.
StyleOfRun(rs, run) ==
    IF run < 0 \/ run >= Len(rs.styles) THEN 0 ELSE rs.styles[run + 1]

\* RunStyles::Length
RunsLength(rs) == PositionFromPartition(rs.starts, Partitions(rs.starts))

\* RunStyles::Runs
Runs(rs) == Partitions(rs.starts)

\* The loop of RunFromPosition: back to the first run that starts at position.
RECURSIVE RunBack(_, _, _)
RunBack(rs, position, run) ==
    IF run > 0 /\ position = PositionFromPartition(rs.starts, run - 1)
        THEN RunBack(rs, position, run - 1)
        ELSE run

\* RunStyles::RunFromPosition
RunFromPosition(rs, position) ==
    RunBack(rs, position, PartitionFromPosition(rs.starts, position))

\* RunStyles::ValueAt
RunValueAt(rs, position) == StyleOfRun(rs, PartitionFromPosition(rs.starts, position))

\* RunStyles::EndRun
EndRun(rs, position) ==
    PositionFromPartition(rs.starts, PartitionFromPosition(rs.starts, position) + 1)

\* RunStyles::SplitRun once the run of position is known.  The result is the
\* RunStyles and the run that starts at position.
SplitRunAt(rs, position, run) ==
    IF PositionFromPartition(rs.starts, run) < position
        THEN [rs |-> [starts |-> InsertPartition(rs.starts, run + 1, position),
                      styles |-> InsertFromArray(rs.styles, run + 1,
                                                 <<RunValueAt(rs, position)>>)],
              run |-> run + 1]
        ELSE [rs |-> rs, run |-> run]

\* RunStyles::SplitRun
SplitRun(rs, position) == SplitRunAt(rs, position, RunFromPosition(rs, position))

\* A faulty RemoveRun that leaves the value of the run behind.
RemoveRunKeepsValue(rs, run) ==
    [rs EXCEPT !.starts = RemovePartition(rs.starts, run)]

\* RunStyles::RemoveRun
RemoveRun(rs, run) ==
    [starts |-> RemovePartition(rs.starts, run), styles |-> DeleteRange(rs.styles, run, 1)]

\* RunStyles::RemoveRunIfEmpty
RemoveRunIfEmpty(rs, run) ==
    IF run < Partitions(rs.starts) /\ Partitions(rs.starts) > 1
       /\ PositionFromPartition(rs.starts, run) = PositionFromPartition(rs.starts, run + 1)
        THEN RemoveRun(rs, run)
        ELSE rs

\* A faulty merge that never removes a run.
RemoveRunIfSameAsPreviousNever(rs, run) == rs

\* RunStyles::RemoveRunIfSameAsPrevious
RemoveRunIfSameAsPrevious(rs, run) ==
    IF run > 0 /\ run < Partitions(rs.starts)
       /\ StyleOfRun(rs, run - 1) = StyleOfRun(rs, run)
        THEN RemoveRun(rs, run)
        ELSE rs

\* The loop of FillRange and of DeleteRange that removes `count` runs at `run`.
RECURSIVE RemoveRuns(_, _, _)
RemoveRuns(rs, run, count) ==
    IF count <= 0 THEN rs ELSE RemoveRuns(RemoveRun(rs, run), run, count - 1)

\* What FillRange returns: the RunStyles, the value returned and the two arguments
\* it was given by reference.
FillResult(rs, ret, position, fillLength) ==
    [rs |-> rs, ret |-> ret, position |-> position, fillLength |-> fillLength]

\* The end of FillRange: rs has the value in runStart and the runs covered removed.
\* The run at the end and the run at the start are merged with the ones before them
\* when they have the same value, and an empty run at the end is removed.
FillMergeEmpty(rs, end) == RemoveRunIfEmpty(rs, RunFromPosition(rs, end))

FillMergeStart(rs, end, runStart) ==
    FillMergeEmpty(RemoveRunIfSameAsPrevious(rs, runStart), end)

FillMerge(rs, end, runStart) ==
    FillMergeStart(RemoveRunIfSameAsPrevious(rs, RunFromPosition(rs, end)), end, runStart)

\* FillRange from `if (runStart < runEnd)`; f holds rs, position, fillLength, runStart
\* and runEnd.
FillRuns(f, value, end) ==
    IF f.runStart < f.runEnd
        THEN FillResult(
                FillMerge(
                    RemoveRuns([f.rs EXCEPT !.styles = SetValueAt(@, f.runStart, value)],
                               f.runStart + 1, f.runEnd - f.runStart - 1),
                    end, f.runStart),
                TRUE, f.position, f.fillLength)
        ELSE FillResult(f.rs, FALSE, f.position, f.fillLength)

\* FillRange at its start once the run of position is known: the range is trimmed
\* when the run has the value, and the run is split otherwise.
FillStartAt(rs, position, value, fillLength, end, runEnd, runStart) ==
    IF StyleOfRun(rs, runStart) = value
        THEN [rs |-> rs, runStart |-> runStart + 1, runEnd |-> runEnd,
              position |-> PositionFromPartition(rs.starts, runStart + 1),
              fillLength |-> end - PositionFromPartition(rs.starts, runStart + 1)]
    ELSE IF PositionFromPartition(rs.starts, runStart) < position
        THEN [rs |-> SplitRun(rs, position).rs, runStart |-> runStart + 1,
              runEnd |-> runEnd + 1, position |-> position, fillLength |-> fillLength]
    ELSE [rs |-> rs, runStart |-> runStart, runEnd |-> runEnd,
          position |-> position, fillLength |-> fillLength]

\* FillRange from `Sci::Position runStart = RunFromPosition(position)`; e holds rs,
\* end, fillLength and runEnd.
FillStart(e, position, value) ==
    FillRuns(FillStartAt(e.rs, position, value, e.fillLength, e.end, e.runEnd,
                         RunFromPosition(e.rs, position)),
             value, e.end)

\* FillRange at its end once the run of end is known and has not the value: the run
\* is split at end.
FillSplitEnd(s, fillLength, end) ==
    [rs |-> s.rs, end |-> end, fillLength |-> fillLength, runEnd |-> s.run]

\* FillRange at its end once the run of end is known.
FillEndAt(rs, position, value, fillLength, end, runEnd) ==
    IF StyleOfRun(rs, runEnd) = value
        THEN IF position >= PositionFromPartition(rs.starts, runEnd)
                THEN FillResult(rs, FALSE, position, fillLength)
                ELSE FillStart([rs |-> rs, end |-> PositionFromPartition(rs.starts, runEnd),
                                fillLength |-> PositionFromPartition(rs.starts, runEnd)
                                               - position,
                                runEnd |-> runEnd],
                               position, value)
        ELSE FillStart(FillSplitEnd(SplitRun(rs, end), fillLength, end), position, value)

\* RunStyles::FillRange.  The result is a FillResult.
FillRange(rs, position, value, fillLength) ==
    IF fillLength <= 0 THEN FillResult(rs, FALSE, position, fillLength)
    ELSE IF position + fillLength > RunsLength(rs)
        THEN FillResult(rs, FALSE, position, fillLength)
    ELSE FillEndAt(rs, position, value, fillLength, position + fillLength,
                   RunFromPosition(rs, position + fillLength))

\* RunStyles::SetValueAt
RunSetValueAt(rs, position, value) == FillRange(rs, position, value, 1).rs

\* RunStyles::InsertSpace once the run of position is known.
InsertSpaceAt(rs, position, insertLength, runStart) ==
    IF PositionFromPartition(rs.starts, runStart) = position
        THEN IF runStart = 0
                THEN IF RunValueAt(rs, position) # 0
                        THEN [starts |-> InsertText(InsertPartition(rs.starts, 1, 0), 0,
                                                    insertLength),
                              styles |-> InsertFromArray(SetValueAt(rs.styles, 0, 0), 1,
                                                         <<RunValueAt(rs, position)>>)]
                        ELSE [rs EXCEPT !.starts = InsertText(@, runStart, insertLength)]
                ELSE IF RunValueAt(rs, position) # 0
                        THEN [rs EXCEPT !.starts = InsertText(@, runStart - 1, insertLength)]
                        ELSE [rs EXCEPT !.starts = InsertText(@, runStart, insertLength)]
        ELSE [rs EXCEPT !.starts = InsertText(@, runStart, insertLength)]

\* A faulty InsertSpace that always makes the run before the one of position longer.
InsertSpaceInRunBefore(rs, position, insertLength) ==
    IF RunFromPosition(rs, position) > 0
        THEN [rs EXCEPT !.starts = InsertText(@, RunFromPosition(rs, position) - 1,
                                              insertLength)]
        ELSE [rs EXCEPT !.starts = InsertText(@, 0, insertLength)]

\* RunStyles::InsertSpace
InsertSpace(rs, position, insertLength) ==
    InsertSpaceAt(rs, position, insertLength, RunFromPosition(rs, position))

\* RunStyles::DeleteRange over more than one run, once both ends are split: s holds
\* rs and runEnd.
DeleteRuns(s, deleteLength, runStart) ==
    RemoveRunIfSameAsPrevious(
        RemoveRunIfEmpty(
            RemoveRuns([s.rs EXCEPT !.starts = InsertText(@, runStart, -deleteLength)],
                       runStart, s.run - runStart),
            runStart),
        runStart)

\* RunStyles::DeleteRange over more than one run, once the start is split: s holds rs
\* and runStart.
DeleteSplitEnd(s, end, deleteLength) ==
    DeleteRuns(SplitRun(s.rs, end), deleteLength, s.run)

\* RunStyles::DeleteRange once the runs of its two ends are known.
DeleteRangeAt(rs, position, deleteLength, runStart, runEnd) ==
    IF runStart = runEnd
        THEN RemoveRunIfEmpty([rs EXCEPT !.starts = InsertText(@, runStart, -deleteLength)],
                              runStart)
        ELSE DeleteSplitEnd(SplitRun(rs, position), position + deleteLength, deleteLength)

\* RunStyles::DeleteRange
RunDeleteRange(rs, position, deleteLength) ==
    DeleteRangeAt(rs, position, deleteLength, RunFromPosition(rs, position),
                  RunFromPosition(rs, position + deleteLength))

\* -------------------------------------------------------- ContractionState
\* A ContractionState c has the three RunStyles c.visible, c.expanded and c.heights,
\* the Partitioning c.displayLines and c.linesInDocument; c.oneToOne says that the
\* four structures are not allocated.
\* ContractionState::ContractionState and ContractionState::Clear
Clear ==
    [oneToOne |-> TRUE, visible |-> RunStylesInit, expanded |-> RunStylesInit,
     heights |-> RunStylesInit, displayLines |-> <<0, 0>>, linesInDocument |-> 1]

\* ContractionState::OneToOne
OneToOne(c) == c.oneToOne

\* ContractionState::LinesInDoc
LinesInDoc(c) ==
    IF OneToOne(c) THEN c.linesInDocument ELSE Partitions(c.displayLines) - 1

\* ContractionState::LinesDisplayed
LinesDisplayed(c) ==
    IF OneToOne(c) THEN c.linesInDocument
    ELSE PositionFromPartition(c.displayLines, LinesInDoc(c))

\* ContractionState::DisplayFromDoc
DisplayFromDoc(c, lineDoc) ==
    IF OneToOne(c)
        THEN IF lineDoc <= c.linesInDocument THEN lineDoc ELSE c.linesInDocument
    ELSE IF lineDoc > Partitions(c.displayLines)
        THEN PositionFromPartition(c.displayLines, Partitions(c.displayLines))
    ELSE PositionFromPartition(c.displayLines, lineDoc)

\* ContractionState::GetVisible
GetVisible(c, lineDoc) ==
    IF OneToOne(c) THEN TRUE
    ELSE IF lineDoc >= RunsLength(c.visible) THEN TRUE
    ELSE RunValueAt(c.visible, lineDoc) = 1

\* ContractionState::GetExpanded
GetExpanded(c, lineDoc) ==
    IF OneToOne(c) THEN TRUE ELSE RunValueAt(c.expanded, lineDoc) = 1

\* ContractionState::GetHeight
GetHeight(c, lineDoc) ==
    IF OneToOne(c) THEN 1 ELSE RunValueAt(c.heights, lineDoc)

\* ContractionState::DocFromDisplay
DocFromDisplay(c, lineDisplay) ==
    IF OneToOne(c) THEN lineDisplay
    ELSE IF lineDisplay <= 0 THEN 0
    ELSE IF lineDisplay > LinesDisplayed(c)
        THEN PartitionFromPosition(c.displayLines, LinesDisplayed(c))
    ELSE PartitionFromPosition(c.displayLines, lineDisplay)

\* ContractionState::InsertLine
CsInsertLine(c, lineDoc) ==
    IF OneToOne(c) THEN [c EXCEPT !.linesInDocument = @ + 1]
    ELSE [c EXCEPT
            !.visible = RunSetValueAt(InsertSpace(@, lineDoc, 1), lineDoc, 1),
            !.expanded = RunSetValueAt(InsertSpace(@, lineDoc, 1), lineDoc, 1),
            !.heights = RunSetValueAt(InsertSpace(@, lineDoc, 1), lineDoc, 1),
            !.displayLines = InsertText(InsertPartition(@, lineDoc, DisplayFromDoc(c, lineDoc)),
                                        lineDoc, 1)]

\* ContractionState::InsertLines from its line l on
RECURSIVE CsInsertLinesFrom(_, _, _, _)
CsInsertLinesFrom(c, lineDoc, lineCount, l) ==
    IF l < lineCount
        THEN CsInsertLinesFrom(CsInsertLine(c, lineDoc + l), lineDoc, lineCount, l + 1)
        ELSE c

\* ContractionState::InsertLines
CsInsertLines(c, lineDoc, lineCount) == CsInsertLinesFrom(c, lineDoc, lineCount, 0)

\* A faulty DeleteLine that leaves the display lines of the deleted line in place.
CsDeleteLineKeepsHeight(c, lineDoc) ==
    IF OneToOne(c) THEN [c EXCEPT !.linesInDocument = @ - 1]
    ELSE [c EXCEPT
            !.displayLines = RemovePartition(@, lineDoc),
            !.visible = RunDeleteRange(@, lineDoc, 1),
            !.expanded = RunDeleteRange(@, lineDoc, 1),
            !.heights = RunDeleteRange(@, lineDoc, 1)]

\* ContractionState::DeleteLine
CsDeleteLine(c, lineDoc) ==
    IF OneToOne(c) THEN [c EXCEPT !.linesInDocument = @ - 1]
    ELSE [c EXCEPT
            !.displayLines =
                RemovePartition(IF GetVisible(c, lineDoc)
                                    THEN InsertText(@, lineDoc, -RunValueAt(c.heights, lineDoc))
                                    ELSE @,
                                lineDoc),
            !.visible = RunDeleteRange(@, lineDoc, 1),
            !.expanded = RunDeleteRange(@, lineDoc, 1),
            !.heights = RunDeleteRange(@, lineDoc, 1)]

\* ContractionState::DeleteLines from its line l on
RECURSIVE CsDeleteLinesFrom(_, _, _, _)
CsDeleteLinesFrom(c, lineDoc, lineCount, l) ==
    IF l < lineCount
        THEN CsDeleteLinesFrom(CsDeleteLine(c, lineDoc), lineDoc, lineCount, l + 1)
        ELSE c

\* ContractionState::DeleteLines
CsDeleteLines(c, lineDoc, lineCount) == CsDeleteLinesFrom(c, lineDoc, lineCount, 0)

\* ContractionState::EnsureData
EnsureData(c) ==
    IF OneToOne(c)
        THEN CsInsertLines([c EXCEPT !.oneToOne = FALSE, !.visible = RunStylesInit,
                                     !.expanded = RunStylesInit,
                                     !.heights = RunStylesInit,
                                     !.displayLines = <<0, 0>>],
                           0, c.linesInDocument)
        ELSE c

\* What a call that sets a value returns: the ContractionState and the value returned.
CsResult(c, ret) == [cs |-> c, ret |-> ret]

\* The body of the loop of SetVisible for a line whose visibility changes.
SetVisibleLine(c, line, isVisible, difference) ==
    [c EXCEPT !.visible = RunSetValueAt(@, line, IF isVisible THEN 1 ELSE 0),
              !.displayLines = InsertText(@, line, difference)]

\* The loop of SetVisible from line on.
RECURSIVE SetVisibleLines(_, _, _, _, _)
SetVisibleStep(c, line, lineDocEnd, isVisible, delta, difference) ==
    SetVisibleLines(SetVisibleLine(c, line, isVisible, difference), line + 1, lineDocEnd,
                    isVisible, delta + difference)

SetVisibleLines(c, line, lineDocEnd, isVisible, delta) ==
    IF line > lineDocEnd THEN CsResult(c, delta # 0)
    ELSE IF GetVisible(c, line) # isVisible
        THEN SetVisibleStep(c, line, lineDocEnd, isVisible, delta,
                            IF isVisible THEN RunValueAt(c.heights, line)
                                         ELSE -RunValueAt(c.heights, line))
    ELSE SetVisibleLines(c, line + 1, lineDocEnd, isVisible, delta)

\* SetVisible after EnsureData
SetVisibleRange(c, lineDocStart, lineDocEnd, isVisible) ==
    IF lineDocStart <= lineDocEnd /\ lineDocStart >= 0 /\ lineDocEnd < LinesInDoc(c)
        THEN SetVisibleLines(c, lineDocStart, lineDocEnd, isVisible, 0)
        ELSE CsResult(c, FALSE)

\* ContractionState::SetVisible
SetVisible(c, lineDocStart, lineDocEnd, isVisible) ==
    IF OneToOne(c) /\ isVisible THEN CsResult(c, FALSE)
    ELSE SetVisibleRange(EnsureData(c), lineDocStart, lineDocEnd, isVisible)

\* SetExpanded after EnsureData
SetExpandedLine(c, lineDoc, isExpanded) ==
    IF isExpanded # (RunValueAt(c.expanded, lineDoc) = 1)
        THEN CsResult([c EXCEPT !.expanded =
                            RunSetValueAt(@, lineDoc, IF isExpanded THEN 1 ELSE 0)],
                      TRUE)
        ELSE CsResult(c, FALSE)

\* ContractionState::SetExpanded
SetExpanded(c, lineDoc, isExpanded) ==
    IF OneToOne(c) /\ isExpanded THEN CsResult(c, FALSE)
    ELSE SetExpandedLine(EnsureData(c), lineDoc, isExpanded)

\* A faulty SetHeight that moves the display lines of a hidden line too.
SetHeightOfAnyLine(c, lineDoc, height) ==
    IF GetHeight(c, lineDoc) # height
        THEN CsResult([c EXCEPT !.displayLines =
                            InsertText(@, lineDoc, height - GetHeight(c, lineDoc)),
                                !.heights = RunSetValueAt(@, lineDoc, height)],
                      TRUE)
        ELSE CsResult(c, FALSE)

\* SetHeight after EnsureData
SetHeightLine(c, lineDoc, height) ==
    IF GetHeight(c, lineDoc) # height
        THEN CsResult([c EXCEPT !.displayLines =
                            IF GetVisible(c, lineDoc)
                                THEN InsertText(@, lineDoc, height - GetHeight(c, lineDoc))
                                ELSE @,
                                !.heights = RunSetValueAt(@, lineDoc, height)],
                      TRUE)
        ELSE CsResult(c, FALSE)

\* ContractionState::SetHeight
SetHeight(c, lineDoc, height) ==
    IF OneToOne(c) /\ height = 1 THEN CsResult(c, FALSE)
    ELSE IF lineDoc < LinesInDoc(c) THEN SetHeightLine(EnsureData(c), lineDoc, height)
    ELSE CsResult(c, FALSE)

\* ContractionState::ShowAll
ShowAll(c) == [Clear EXCEPT !.linesInDocument = LinesInDoc(c)]

\* ------------------------------------------------ SplitVector as a gap buffer
\* A SplitVector v as the code stores it: v.body is the array of `size` elements
\* (size is Len(v.body)), the elements of the vector are the first v.part1Length
\* elements of the array and the elements after the gap of v.gapLength elements.  An
\* element of the array that was never written holds -1.  v.fault says that the code
\* has thrown, has aborted in Platform::Assert or has touched an element outside the
\* array.  v.build is the way the code was compiled: "NDEBUG" where PLATFORM_ASSERT
\* does nothing, "debug" where it calls Platform::Assert, "any" while no call has
\* shown which.
\* SplitVector::Init
SvInit ==
    [body |-> <<>>, lengthBody |-> 0, part1Length |-> 0, gapLength |-> 0, growSize |-> 8,
     fault |-> FALSE, build |-> "any"]

\* The builds of the code that v can be part of.
Builds(v) == IF v.build = "any" THEN {"NDEBUG", "debug"} ELSE {v.build}

\* PLATFORM_ASSERT(c): Platform::Assert aborts when c is false, in a build that has
\* assertions.
PlatformAssert(v, c) ==
    IF c \/ v.build # "debug" THEN v ELSE [v EXCEPT !.fault = TRUE]

\* memmove(body + dst, body + src, n) inside the array
MemMove(body, dst, src, n) ==
    [k \in 1..Len(body) |->
        IF k - 1 >= dst /\ k - 1 < dst + n
            THEN IF k - dst + src >= 1 /\ k - dst + src <= Len(body)
                    THEN body[k - dst + src] ELSE -1
            ELSE body[k]]

\* memmove on the array of v
Moved(v, dst, src, n) ==
    [v EXCEPT !.body = MemMove(@, dst, src, n),
              !.fault = @ \/ (n > 0 /\ (dst < 0 \/ src < 0 \/ dst + n > Len(v.body)
                                        \/ src + n > Len(v.body)))]

\* A faulty GapTo that moves the gap and leaves the elements where they were.
GapToUnmoved(v, position) == [v EXCEPT !.part1Length = position]

\* SplitVector::GapTo
GapTo(v, position) ==
    IF position # v.part1Length
        THEN IF position < v.part1Length
                THEN [Moved(v, position + v.gapLength, position, v.part1Length - position)
                        EXCEPT !.part1Length = position]
                ELSE [Moved(v, v.part1Length, v.part1Length + v.gapLength,
                            position - v.part1Length)
                        EXCEPT !.part1Length = position]
        ELSE v

\* SplitVector::ReAllocate once the gap is at the end
ReAllocateMoved(g, newSize) ==
    [g EXCEPT !.body = [k \in 1..newSize |-> IF k <= g.lengthBody THEN g.body[k] ELSE -1],
              !.gapLength = @ + newSize - Len(g.body)]

\* SplitVector::ReAllocate
ReAllocate(v, newSize) ==
    IF newSize < 0 THEN [v EXCEPT !.fault = TRUE]
    ELSE IF newSize > Len(v.body) THEN ReAllocateMoved(GapTo(v, v.lengthBody), newSize)
    ELSE v

\* The loop of RoomFor on growSize
RECURSIVE GrowSize(_, _)
GrowSize(growSize, size) ==
    IF growSize < size \div 6 THEN GrowSize(growSize * 2, size) ELSE growSize

\* RoomFor once growSize is large enough
RoomForGrown(v, insertionLength) ==
    ReAllocate(v, Len(v.body) + insertionLength + v.growSize)

\* SplitVector::RoomFor
RoomFor(v, insertionLength) ==
    IF v.gapLength <= insertionLength
        THEN RoomForGrown([v EXCEPT !.growSize = GrowSize(@, Len(v.body))], insertionLength)
        ELSE v

\* SplitVector::SetGrowSize
SetGrowSize(v, growSize) == [v EXCEPT !.growSize = growSize]

\* body[index] read by the code: -1 and a fault outside the array
BodyAt(v, index) ==
    IF index >= 0 /\ index < Len(v.body) THEN v.body[index + 1] ELSE -1

\* A faulty ValueAt that reads the array after the last element.
SvValueAtUnchecked(v, position) ==
    IF position < v.part1Length
        THEN IF position < 0 THEN 0 ELSE BodyAt(v, position)
        ELSE BodyAt(v, v.gapLength + position)

\* SplitVector::ValueAt
SvValueAt(v, position) ==
    IF position < v.part1Length
        THEN IF position < 0 THEN 0 ELSE BodyAt(v, position)
        ELSE IF position >= v.lengthBody THEN 0 ELSE BodyAt(v, v.gapLength + position)

\* body[index] = x written by the code
BodySet(v, index, x) ==
    IF index >= 0 /\ index < Len(v.body)
        THEN [v EXCEPT !.body[index + 1] = x]
        ELSE [v EXCEPT !.fault = TRUE]

\* SplitVector::SetValueAt
SvSetValueAt(v, position, x) ==
    IF position < v.part1Length
        THEN IF position < 0 THEN PlatformAssert(v, FALSE) ELSE BodySet(v, position, x)
        ELSE IF position >= v.lengthBody THEN PlatformAssert(v, FALSE)
             ELSE BodySet(v, v.gapLength + position, x)

\* SplitVector::Length
SvLength(v) == v.lengthBody

\* The elements of the vector, as ValueAt gives them
SvElements(v) == [k \in 1..SvLength(v) |-> SvValueAt(v, k - 1)]

\* The end of the three insertions: the elements t are written at the start of the gap.
RECURSIVE FillGap(_, _, _)
FillGap(g, t, k) ==
    IF k > Len(t) THEN g ELSE FillGap(BodySet(g, g.part1Length + k - 1, t[k]), t, k + 1)

InsertAtGap(g, t) ==
    [FillGap(g, t, 1) EXCEPT !.lengthBody = @ + Len(t), !.part1Length = @ + Len(t),
                              !.gapLength = @ - Len(t)]

\* SplitVector::Insert
SvInsert(v, position, x) ==
    IF position < 0 \/ position > v.lengthBody THEN PlatformAssert(v, FALSE)
    ELSE InsertAtGap(GapTo(RoomFor(v, 1), position), <<x>>)

\* SplitVector::InsertValue
SvInsertValue(v, position, insertLength, x) ==
    IF position < 0 \/ position > v.lengthBody THEN PlatformAssert(v, FALSE)
    ELSE IF insertLength > 0
        THEN InsertAtGap(GapTo(RoomFor(v, insertLength), position),
                         [k \in 1..insertLength |-> x])
    ELSE v

\* SplitVector::InsertFromArray
SvInsertFromArray(v, positionToInsert, s, positionFrom, insertLength) ==
    IF positionToInsert < 0 \/ positionToInsert > v.lengthBody
        THEN PlatformAssert(v, FALSE)
    ELSE IF insertLength > 0
        THEN InsertAtGap(GapTo(RoomFor(v, insertLength), positionToInsert),
                         SubSeq(s, positionFrom + 1, positionFrom + insertLength))
    ELSE v

\* DeleteRange of a range inside the vector that is not all of it
DeleteAtGap(g, deleteLength) ==
    [g EXCEPT !.lengthBody = @ - deleteLength, !.gapLength = @ + deleteLength]

\* SplitVector::DeleteRange
SvDeleteRange(v, position, deleteLength) ==
    IF position < 0 \/ position + deleteLength > v.lengthBody THEN PlatformAssert(v, FALSE)
    ELSE IF position = 0 /\ deleteLength = v.lengthBody THEN [SvInit EXCEPT !.build = v.build]
    ELSE IF deleteLength > 0 THEN DeleteAtGap(GapTo(v, position), deleteLength)
    ELSE v

\* SplitVector::Delete
SvDelete(v, position) ==
    IF position < 0 \/ position >= v.lengthBody THEN PlatformAssert(v, FALSE)
    ELSE SvDeleteRange(v, position, 1)

\* SplitVector::BufferPointer: the gap is moved to the end and a 0 written after the
\* last element, so that the elements are contiguous and terminated.
SvBufferPointer(v) ==
    BodySet(GapTo(RoomFor(v, 1), v.lengthBody), v.lengthBody, 0)

\* SplitVector::RangePointer: the gap is moved to the start of a range that it splits.
SvRangePointer(v, position, rangeLength) ==
    IF position < v.part1Length
        THEN IF position + rangeLength > v.part1Length THEN GapTo(v, position) ELSE v
        ELSE v

\* TRUE when RoomFor(insertionLength) on v calls `new T[newSize]`.
Allocates(v, insertionLength) ==
    /\ v.gapLength <= insertionLength
    /\ insertionLength + GrowSize(v.growSize, Len(v.body)) > 0

\* A faulty growth that frees the old array before it allocates the new one, and so
\* loses the elements when the allocation fails.
RoomForThrowsFreed(v, insertionLength) ==
    [v EXCEPT !.body = <<>>, !.lengthBody = 0, !.part1Length = 0, !.gapLength = 0]

\* SplitVector::RoomFor when `new T[newSize]` in ReAllocate throws std::bad_alloc:
\* growSize was set and the gap moved to the end before the allocation, and the
\* exception leaves RoomFor and its caller at once.
RoomForThrows(v, insertionLength) ==
    GapTo([v EXCEPT !.growSize = GrowSize(@, Len(v.body))], v.lengthBody)

\* ------------------------------------------------------------ ScaledVector
\* A value of type size_t is the sequence of its maxElementSize bytes, the most
\* significant first; a Sci::Position is converted to size_t as the compiler does it,
\* a negative one to its two's complement.  A ScaledVector v holds v.elementSize,
\* v.elementMax and the vector v.bytes; v.fault says that bytes were copied to a place
\* outside the vector.
maxElementSize == 8
byteMask == 255

\* n bytes of zero
Zeros(n) == [k \in 1..n |-> 0]

\* The size_t with the least significant bytes b.
SizeT(b) == Zeros(maxElementSize - Len(b)) \o b

\* a <= b for two values of type size_t
RECURSIVE LessEqFrom(_, _, _)
LessEqFrom(a, b, k) ==
    IF k > Len(a) THEN TRUE
    ELSE IF a[k] < b[k] THEN TRUE
    ELSE IF a[k] > b[k] THEN FALSE
    ELSE LessEqFrom(a, b, k + 1)

LessEq(a, b) == LessEqFrom(a, b, 1)

\* ReadValue: the value of `length` bytes, the most significant first.
ReadValue(bytes, length) == SizeT(SubSeq(bytes, 1, length))

\* WriteValue: the `length` least significant bytes of value.
WriteValue(length, value) ==
    SubSeq(value, maxElementSize - length + 1, maxElementSize)

\* ScaledVector::Size
ScaledSize(v) == Len(v.bytes) \div v.elementSize

\* The bytes of the element at index.
ElementBytes(v, index) ==
    SubSeq(v.bytes, index * v.elementSize + 1, (index + 1) * v.elementSize)

\* ScaledVector::ValueAt
ScaledValueAt(v, index) == ReadValue(ElementBytes(v, index), v.elementSize)

\* ScaledVector::SignedValueAt: the value read, converted to intptr_t.
SignedValueAt(v, index) == ReadValue(ElementBytes(v, index), v.elementSize)

\* MaxForBytes
MaxForBytes(length) == SizeT([k \in 1..length |-> byteMask])

\* SizeForValue: the first size below maxElementSize that holds value, and 1 when
\* there is none.
SizeForValue(value) ==
    IF \E i \in 1..(maxElementSize - 1) : LessEq(value, MaxForBytes(i))
        THEN CHOOSE i \in 1..(maxElementSize - 1) :
                /\ LessEq(value, MaxForBytes(i))
                /\ \A j \in 1..(i - 1) : ~LessEq(value, MaxForBytes(j))
        ELSE 1

\* The element whose copy covers the byte at `offset` of the new vector, when the
\* elements of v are copied into elements of elementSizeNew bytes: the last one
\* copied, or -1.
CopiedOver(v, elementSizeNew, offset) ==
    LET from == {i \in 0..(ScaledSize(v) - 1) :
                    /\ (i + 1) * elementSizeNew - v.elementSize <= offset
                    /\ offset < (i + 1) * elementSizeNew}
    IN IF from = {} THEN -1 ELSE CHOOSE i \in from : \A j \in from : j <= i

\* The expansion in ScaledVector::SetValueAt: each element is copied to the end of
\* its new place.
Expanded(v, elementSizeNew) ==
    [elementSize |-> elementSizeNew,
     elementMax |-> MaxForBytes(elementSizeNew),
     bytes |-> [k \in 1..(elementSizeNew * ScaledSize(v)) |->
                 LET i == CopiedOver(v, elementSizeNew, k - 1)
                 IN IF i < 0 THEN 0
                    ELSE v.bytes[i * v.elementSize
                                 + (k - 1) - ((i + 1) * elementSizeNew - v.elementSize) + 1]],
     fault |-> v.fault \/ (ScaledSize(v) > 0 /\ elementSizeNew < v.elementSize)]

\* The end of SetValueAt and ClearValueAt: WriteValue at the place of the element.
ElementWritten(v, index, value) ==
    [v EXCEPT !.bytes = SubSeq(@, 1, index * v.elementSize)
                        \o WriteValue(v.elementSize, value)
                        \o SubSeq(@, (index + 1) * v.elementSize + 1, Len(@))]

\* ScaledVector::SetValueAt
ScaledSetValueAt(v, index, value) ==
    IF ~LessEq(value, v.elementMax)
        THEN ElementWritten(Expanded(v, SizeForValue(value)), index, value)
        ELSE ElementWritten(v, index, value)

\* ScaledVector::ClearValueAt
ClearValueAt(v, index) == ElementWritten(v, index, SizeT(<<>>))

\* ScaledVector::ReSize of a new ScaledVector
ReSized(length) ==
    [elementSize |-> 1, elementMax |-> MaxForBytes(1), bytes |-> Zeros(length),
     fault |-> FALSE]

\* The slots of the UndoActions of a new UndoHistory: actions.resize(3).
ScaledSlots == 3

\* UndoActions::Create for its ScaledVectors: u.given is what it was called with,
\* slot by slot.
UaCreate(u, index, position_, lenData_) ==
    [positions |-> ScaledSetValueAt(u.positions, index, position_),
     lengths |-> ScaledSetValueAt(u.lengths, index, lenData_),
     given |-> [u.given EXCEPT ![index + 1] = <<position_, lenData_>>]]

\* UndoActions::CreateStart for its ScaledVectors
UaCreateStart(u, index) ==
    [positions |-> ClearValueAt(u.positions, index),
     lengths |-> ClearValueAt(u.lengths, index),
     given |-> [u.given EXCEPT ![index + 1] = <<SizeT(<<>>), SizeT(<<>>)>>]]

\* The UndoActions as the constructor of UndoHistory leaves it.
UndoActionsInit ==
    UaCreate([positions |-> ReSized(ScaledSlots), lengths |-> ReSized(ScaledSlots),
              given |-> [k \in 1..ScaledSlots |-> <<>>]],
             0, SizeT(<<>>), SizeT(<<>>))

\* UndoHistory::GetUndoStep and GetRedoStep for the slot index: the position and the
\* length of the Action returned.
StepValues(u, index) ==
    <<SignedValueAt(u.positions, index), SignedValueAt(u.lengths, index)>>

\* The values of type Sci::Position that records are created with: 0, 1, 255, 256,
\* 65536, 2^56 - 1, 2^56 and -1; and the lengths 0, 1 and 256.
PositionValues ==
    {SizeT(<<>>), SizeT(<<1>>), SizeT(<<byteMask>>), SizeT(<<1, 0>>), SizeT(<<1, 0, 0>>),
     SizeT([k \in 1..(maxElementSize - 1) |-> byteMask]),
     SizeT(<<1>> \o Zeros(maxElementSize - 1)),
     SizeT([k \in 1..maxElementSize |-> byteMask])}

LengthValues == {SizeT(<<>>), SizeT(<<1>>), SizeT(<<1, 0>>)}

\* ------------------------------------------------- characters and positions
\* The const members of Document that read the text take a view c of the document:
\* c.substance and c.starts, the code page c.dbcsCodePage and the case folder c.pcf.
\* A byte of the text is a string: a character for the ASCII bytes and two
\* hexadecimal digits for the others; "0" is the zero byte that CharAt gives outside
\* the text.  ByteOf is the value of a byte.
ByteOf(ch) ==
    CASE ch = "0" -> 0
      [] ch = "\n" -> 10
      [] ch = "\r" -> 13
      [] ch = "B" -> 66
      [] ch = "a" -> 97
      [] ch = "b" -> 98
      [] ch = "93" -> 147
      [] ch = "B3" -> 179
      [] ch = "CE" -> 206
      [] ch = "E9" -> 233

\* SC_CP_UTF8
SC_CP_UTF8 == 65001

\* Document::CharAt
CharAt(c, pos) == ValueAt(c.substance, pos)

\* UTF8IsAscii, UTF8IsTrailByte and UTF8BytesOfLead of a byte value
UTF8IsAscii(b) == b < 128

UTF8IsTrailByte(b) == b >= 128 /\ b < 192

UTF8BytesOfLead(b) ==
    IF b < 194 THEN 1
    ELSE IF b < 224 THEN 2
    ELSE IF b < 240 THEN 3
    ELSE IF b < 245 THEN 4
    ELSE 1

\* UTF8Classify of the byte values us, of which len are of the text: the width of
\* the character and whether the bytes are invalid (UTF8MaskInvalid).
UTF8Invalid == [width |-> 1, invalid |-> TRUE]

UTF8Classify(us, len) ==
    IF us[1] < 128 THEN [width |-> 1, invalid |-> FALSE]
    ELSE IF us[1] > 244 THEN UTF8Invalid
    ELSE IF us[1] >= 240
        THEN IF len < 4 THEN UTF8Invalid
             ELSE IF UTF8IsTrailByte(us[2]) /\ UTF8IsTrailByte(us[3]) /\ UTF8IsTrailByte(us[4])
                     /\ ~(us[1] = 240 /\ us[2] < 144) /\ ~(us[1] = 244 /\ us[2] > 143)
                 THEN [width |-> 4, invalid |-> FALSE]
             ELSE UTF8Invalid
    ELSE IF us[1] >= 224
        THEN IF len < 3 THEN UTF8Invalid
             ELSE IF UTF8IsTrailByte(us[2]) /\ UTF8IsTrailByte(us[3])
                     /\ ~(us[1] = 224 /\ us[2] < 160) /\ ~(us[1] = 237 /\ us[2] >= 160)
                     /\ ~(us[1] = 239 /\ us[2] = 191 /\ us[3] >= 190)
                     /\ ~(us[1] = 239 /\ us[2] = 183 /\ us[3] >= 144 /\ us[3] <= 175)
                 THEN [width |-> 3, invalid |-> FALSE]
             ELSE UTF8Invalid
    ELSE IF us[1] >= 194
        THEN IF len < 2 THEN UTF8Invalid
             ELSE IF UTF8IsTrailByte(us[2]) THEN [width |-> 2, invalid |-> FALSE]
             ELSE UTF8Invalid
    ELSE UTF8Invalid

\* char charBytes[UTF8MaxBytes] = {leadByte,0,0,0} filled with the widthCharBytes bytes
\* of the text at position, as byte values; the bytes from `limit` on are left zero.
CharBytes(c, position, widthCharBytes, limit) ==
    [b \in 1..4 |-> IF b = 1 \/ (b <= widthCharBytes /\ position + b - 1 < limit)
                        THEN ByteOf(CharAt(c, position + b - 1)) ELSE 0]

\* Document::IsDBCSLeadByte of a byte value
IsDBCSLeadByte(c, uch) ==
    CASE c.dbcsCodePage = 932 -> (uch >= 129 /\ uch <= 159) \/ (uch >= 224 /\ uch <= 252)
      [] c.dbcsCodePage \in {936, 949, 950} -> uch >= 129 /\ uch <= 254
      [] c.dbcsCodePage = 1361 ->
            (uch >= 132 /\ uch <= 211) \/ (uch >= 216 /\ uch <= 222)
                \/ (uch >= 224 /\ uch <= 249)
      [] OTHER -> FALSE

\* IsDBCSLeadByte(cb.CharAt(pos))
LeadAt(c, pos) == IsDBCSLeadByte(c, ByteOf(CharAt(c, pos)))

\* Document::IsCrLf
IsCrLf(c, pos) ==
    IF pos < 0 THEN FALSE
    ELSE IF pos >= Length(c) - 1 THEN FALSE
    ELSE CharAt(c, pos) = "\r" /\ CharAt(c, pos + 1) = "\n"

\* The loop of InGoodUTF8 back over the trail bytes before pos
RECURSIVE TrailBack(_, _, _)
TrailBack(c, pos, trail) ==
    IF trail > 0 /\ pos - trail < 4 /\ UTF8IsTrailByte(ByteOf(CharAt(c, trail - 1)))
        THEN TrailBack(c, pos, trail - 1)
        ELSE trail

\* InGoodUTF8 once start is known
InGoodUTF8From(c, pos, start, widthCharBytes) ==
    IF widthCharBytes = 1 THEN [good |-> FALSE, start |-> start, end |-> pos]
    ELSE IF pos - start > widthCharBytes - 1 THEN [good |-> FALSE, start |-> start, end |-> pos]
    ELSE IF UTF8Classify(CharBytes(c, start, widthCharBytes, Length(c)), widthCharBytes).invalid
        THEN [good |-> FALSE, start |-> start, end |-> pos]
    ELSE [good |-> TRUE, start |-> start, end |-> start + widthCharBytes]

InGoodUTF8At(c, pos, start) ==
    InGoodUTF8From(c, pos, start, UTF8BytesOfLead(ByteOf(CharAt(c, start))))

InGoodUTF8Trail(c, pos, trail) ==
    InGoodUTF8At(c, pos, IF trail > 0 THEN trail - 1 ELSE trail)

\* Document::InGoodUTF8: whether pos is inside a valid character, with its start and
\* its end
InGoodUTF8(c, pos) == InGoodUTF8Trail(c, pos, TrailBack(c, pos, pos))

\* The loops of MovePositionOutsideChar in a DBCS code page
RECURSIVE StepBack(_, _, _)
StepBack(c, posCheck, posStartLine) ==
    IF posCheck > posStartLine /\ LeadAt(c, posCheck - 1)
        THEN StepBack(c, posCheck - 1, posStartLine)
        ELSE posCheck

RECURSIVE WalkTo(_, _, _, _)
WalkStep(c, posCheck, pos, moveDir, mbsize) ==
    IF posCheck + mbsize = pos THEN pos
    ELSE IF posCheck + mbsize > pos
        THEN IF moveDir > 0 THEN posCheck + mbsize ELSE posCheck
    ELSE WalkTo(c, posCheck + mbsize, pos, moveDir)

WalkTo(c, posCheck, pos, moveDir) ==
    IF posCheck < pos
        THEN WalkStep(c, posCheck, pos, moveDir, IF LeadAt(c, posCheck) THEN 2 ELSE 1)
        ELSE pos

MoveOutsideDBCS(c, pos, moveDir, posStartLine) ==
    IF pos = posStartLine THEN pos
    ELSE WalkTo(c, StepBack(c, pos, posStartLine), pos, moveDir)

\* MovePositionOutsideChar in UTF-8, at a trail byte
MoveOutsideUTF8(pos, moveDir, g) ==
    IF g.good THEN IF moveDir > 0 THEN g.end ELSE g.start ELSE pos

\* Document::MovePositionOutsideChar
MovePositionOutsideChar(c, pos, moveDir, checkLineEnd) ==
    IF pos <= 0 THEN 0
    ELSE IF pos >= Length(c) THEN Length(c)
    ELSE IF checkLineEnd /\ IsCrLf(c, pos - 1)
        THEN IF moveDir > 0 THEN pos + 1 ELSE pos - 1
    ELSE IF c.dbcsCodePage = 0 THEN pos
    ELSE IF c.dbcsCodePage = SC_CP_UTF8
        THEN IF UTF8IsTrailByte(ByteOf(CharAt(c, pos)))
                THEN MoveOutsideUTF8(pos, moveDir, InGoodUTF8(c, pos))
                ELSE pos
    ELSE MoveOutsideDBCS(c, pos, moveDir, LineStart(c, LineFromPosition(c.starts, pos)))

\* NextPosition forward in UTF-8, at a byte that is not ASCII
NextUTF8(pos, utf8status) ==
    IF utf8status.invalid THEN pos + 1 ELSE pos + utf8status.width

\* NextPosition backward in UTF-8: pos is the position of the byte before
PreviousUTF8(c, pos) ==
    IF UTF8IsTrailByte(ByteOf(CharAt(c, pos)))
        THEN MoveOutsideUTF8(pos, -1, InGoodUTF8(c, pos))
        ELSE pos

\* The loop of NextPosition backward in a DBCS code page over the lead bytes
RECURSIVE LeadsBack(_, _, _)
LeadsBack(c, posTemp, posStartLine) ==
    IF posStartLine <= posTemp - 1 /\ LeadAt(c, posTemp - 1)
        THEN LeadsBack(c, posTemp - 1, posStartLine)
        ELSE posTemp - 1

\* pos - 1 - ((pos - posTemp) & 1)
PreviousByParity(pos, posTemp) == pos - 1 - ((pos - posTemp) % 2)

\* NextPosition backward in a DBCS code page
PreviousDBCS(c, pos, posStartLine) ==
    IF pos - 1 <= posStartLine THEN pos - 1
    ELSE IF LeadAt(c, pos - 1) THEN pos - 2
    ELSE PreviousByParity(pos, LeadsBack(c, pos - 1, posStartLine))

\* NextPosition after its tests of the ends of the text
NextPositionInside(c, pos, moveDir, increment) ==
    IF c.dbcsCodePage = 0 THEN pos + increment
    ELSE IF c.dbcsCodePage = SC_CP_UTF8
        THEN IF increment = 1
                THEN IF UTF8IsAscii(ByteOf(CharAt(c, pos))) THEN pos + 1
                     ELSE NextUTF8(pos,
                            UTF8Classify(CharBytes(c, pos,
                                            UTF8BytesOfLead(ByteOf(CharAt(c, pos))),
                                            pos + 4),
                                         UTF8BytesOfLead(ByteOf(CharAt(c, pos)))))
                ELSE PreviousUTF8(c, pos - 1)
    ELSE IF moveDir > 0
        THEN IF pos + (IF LeadAt(c, pos) THEN 2 ELSE 1) > Length(c) THEN Length(c)
             ELSE pos + (IF LeadAt(c, pos) THEN 2 ELSE 1)
    ELSE PreviousDBCS(c, pos, LineStart(c, LineFromPosition(c.starts, pos)))

\* Document::NextPosition
NextPositionBy(c, pos, moveDir, increment) ==
    IF pos + increment <= 0 THEN 0
    ELSE IF pos + increment >= Length(c) THEN Length(c)
    ELSE NextPositionInside(c, pos, moveDir, increment)

NextPosition(c, pos, moveDir) ==
    NextPositionBy(c, pos, moveDir, IF moveDir > 0 THEN 1 ELSE -1)

\* Document::NextCharacter: the position and whether it has changed
NextCharacterTo(pos, posNext) ==
    IF posNext = pos THEN [pos |-> pos, moved |-> FALSE] ELSE [pos |-> posNext, moved |-> TRUE]

NextCharacter(c, pos, moveDir) == NextCharacterTo(pos, NextPosition(c, pos, moveDir))

\* The int that a char of byte value b converts to, char being signed.
SignedChar(b) == IF b >= 128 THEN b - 256 ELSE b

\* GetCharacterAndWidth in UTF-8 at a byte that is not ASCII.  The character of valid
\* bytes is given as its bytes.
CharacterAndWidthUTF8(leadByte, charBytes, utf8status) ==
    IF utf8status.invalid
        THEN [character |-> 56448 + leadByte, width |-> 1]
        ELSE [character |-> SubSeq(charBytes, 1, utf8status.width), width |-> utf8status.width]

\* Document::GetCharacterAndWidth: the character and *pWidth
GetCharacterAndWidth(c, position) ==
    IF c.dbcsCodePage = 0
        THEN [character |-> SignedChar(ByteOf(CharAt(c, position))), width |-> 1]
    ELSE IF c.dbcsCodePage = SC_CP_UTF8
        THEN IF UTF8IsAscii(ByteOf(CharAt(c, position)))
                THEN [character |-> ByteOf(CharAt(c, position)), width |-> 1]
                ELSE CharacterAndWidthUTF8(
                        ByteOf(CharAt(c, position)),
                        CharBytes(c, position, UTF8BytesOfLead(ByteOf(CharAt(c, position))),
                                  position + 4),
                        UTF8Classify(CharBytes(c, position,
                                               UTF8BytesOfLead(ByteOf(CharAt(c, position))),
                                               position + 4),
                                     UTF8BytesOfLead(ByteOf(CharAt(c, position)))))
    ELSE IF LeadAt(c, position)
        THEN [character |-> ByteOf(CharAt(c, position)) * 256
                            + ByteOf(CharAt(c, position + 1)),
              width |-> 2]
    ELSE [character |-> ByteOf(CharAt(c, position)), width |-> 1]

\* ------------------------------------------------------------------ search
\* The case folder of the document, when there is one, is a table over single bytes
\* that folds the upper case ASCII letters to lower case and leaves every other byte
\* as it is: Fold folds each byte of `mixed`.
FoldByte(ch) == IF ch = "B" THEN "b" ELSE ch

Fold(mixed) == [i \in 1..Len(mixed) |-> FoldByte(mixed[i])]

\* The bytes of the text from pos, widthChar of them
Bytes(c, pos, widthChar) == [b \in 1..widthChar |-> CharAt(c, pos + b - 1)]

\* memcmp(folded, &searchThing[0] + indexSearch, lenFlat) == 0: searchThing is zero
\* after the folded needle.
SameAsSearch(folded, searchThing, indexSearch) ==
    \A i \in 1..Len(folded) :
        folded[i] = (IF indexSearch + i <= Len(searchThing)
                        THEN searchThing[indexSearch + i] ELSE "0")

\* What FindText gives when nothing is found: -1, *length as it was
NotFound(search) == [ret |-> -1, length |-> Len(search)]

\* A test of one position that does not look at the end of the range
FoundSensitiveAnywhere(c, pos, search, limitPos) ==
    /\ CharAt(c, pos) = search[1]
    /\ \A indexSearch \in 1..(Len(search) - 1) :
            CharAt(c, pos + indexSearch) = search[indexSearch + 1]

\* The test of one position of the case sensitive search
FoundSensitive(c, pos, search, limitPos) ==
    /\ CharAt(c, pos) = search[1]
    /\ pos + Len(search) <= limitPos
    /\ \A indexSearch \in 1..(Len(search) - 1) :
            CharAt(c, pos + indexSearch) = search[indexSearch + 1]

\* The loop of the case sensitive search
RECURSIVE FindSensitive(_, _, _, _, _, _)
FindSensitiveNext(c, next, forward, endSearch, limitPos, search) ==
    IF next.moved
        THEN FindSensitive(c, next.pos, forward, endSearch, limitPos, search)
        ELSE NotFound(search)

FindSensitive(c, pos, forward, endSearch, limitPos, search) ==
    IF (IF forward THEN pos < endSearch ELSE pos >= endSearch)
        THEN IF FoundSensitive(c, pos, search, limitPos)
                THEN [ret |-> pos, length |-> Len(search)]
                ELSE FindSensitiveNext(c, NextCharacter(c, pos, IF forward THEN 1 ELSE -1),
                                       forward, endSearch, limitPos, search)
        ELSE NotFound(search)

\* The width of the character at posIndexDocument as the UTF-8 search takes it
WidthCharUTF8(c, posIndexDocument) ==
    IF UTF8IsAscii(ByteOf(CharAt(c, posIndexDocument))) THEN 1
    ELSE UTF8Classify(CharBytes(c, posIndexDocument,
                                UTF8BytesOfLead(ByteOf(CharAt(c, posIndexDocument))),
                                posIndexDocument + 4),
                      UTF8BytesOfLead(ByteOf(CharAt(c, posIndexDocument)))).width

\* The for (;;) of the UTF-8 search: the characters of the text from pos are folded
\* and compared with the folded needle one after the other.
RECURSIVE WindowUTF8(_, _, _, _, _, _)
WindowUTF8Char(c, posIndexDocument, indexSearch, widthFirstCharacter, searchThing,
               limitPos, widthChar) ==
    IF posIndexDocument + widthChar > limitPos
        THEN [characterMatches |-> TRUE, indexSearch |-> indexSearch,
              posIndexDocument |-> posIndexDocument,
              widthFirstCharacter |-> widthFirstCharacter]
    ELSE IF ~SameAsSearch(Fold(Bytes(c, posIndexDocument, widthChar)), searchThing,
                          indexSearch)
        THEN [characterMatches |-> FALSE, indexSearch |-> indexSearch,
              posIndexDocument |-> posIndexDocument,
              widthFirstCharacter |-> widthFirstCharacter]
    ELSE IF indexSearch + widthChar >= Len(searchThing)
        THEN [characterMatches |-> TRUE, indexSearch |-> indexSearch + widthChar,
              posIndexDocument |-> posIndexDocument + widthChar,
              widthFirstCharacter |-> widthFirstCharacter]
    ELSE WindowUTF8(c, posIndexDocument + widthChar, indexSearch + widthChar,
                    widthFirstCharacter, searchThing, limitPos)

WindowUTF8(c, posIndexDocument, indexSearch, widthFirstCharacter, searchThing, limitPos) ==
    WindowUTF8Char(c, posIndexDocument, indexSearch,
                   IF widthFirstCharacter = 0 THEN WidthCharUTF8(c, posIndexDocument)
                                              ELSE widthFirstCharacter,
                   searchThing, limitPos, WidthCharUTF8(c, posIndexDocument))

\* The loop of the case insensitive search in UTF-8
RECURSIVE FindUTF8(_, _, _, _, _, _)
FindUTF8Next(c, next, forward, endPos, limitPos, search) ==
    IF next.moved
        THEN FindUTF8(c, next.pos, forward, endPos, limitPos, search)
        ELSE NotFound(search)

FindUTF8Window(c, pos, forward, endPos, limitPos, search, w) ==
    IF w.characterMatches /\ w.indexSearch = Len(search)
        THEN [ret |-> pos, length |-> w.posIndexDocument - pos]
    ELSE IF forward
        THEN FindUTF8(c, pos + w.widthFirstCharacter, forward, endPos, limitPos, search)
    ELSE FindUTF8Next(c, NextCharacter(c, pos, -1), forward, endPos, limitPos, search)

FindUTF8(c, pos, forward, endPos, limitPos, search) ==
    IF (IF forward THEN pos < endPos ELSE pos >= endPos)
        THEN FindUTF8Window(c, pos, forward, endPos, limitPos, search,
                            WindowUTF8(c, pos, 0, 0, Fold(search), limitPos))
        ELSE NotFound(search)

\* The inner while of the search in a DBCS code page
RECURSIVE WindowDBCS(_, _, _, _, _, _, _)
WindowDBCSChar(c, pos, indexDocument, indexSearch, searchThing, limitPos, widthChar) ==
    IF pos + indexDocument + widthChar > limitPos
        THEN [characterMatches |-> TRUE, indexDocument |-> indexDocument,
              indexSearch |-> indexSearch]
        ELSE WindowDBCS(c, pos, indexDocument + widthChar, indexSearch + widthChar,
                        SameAsSearch(Fold(Bytes(c, pos + indexDocument, widthChar)),
                                     searchThing, indexSearch),
                        searchThing, limitPos)

WindowDBCS(c, pos, indexDocument, indexSearch, characterMatches, searchThing, limitPos) ==
    IF characterMatches /\ pos + indexDocument < limitPos /\ indexSearch < Len(searchThing)
        THEN WindowDBCSChar(c, pos, indexDocument, indexSearch, searchThing, limitPos,
                            IF LeadAt(c, pos + indexDocument) THEN 2 ELSE 1)
        ELSE [characterMatches |-> characterMatches, indexDocument |-> indexDocument,
              indexSearch |-> indexSearch]

\* The loop of the case insensitive search in a DBCS code page
RECURSIVE FindDBCS(_, _, _, _, _, _)
FindDBCSNext(c, next, forward, endPos, limitPos, search) ==
    IF next.moved
        THEN FindDBCS(c, next.pos, forward, endPos, limitPos, search)
        ELSE NotFound(search)

FindDBCSWindow(c, pos, forward, endPos, limitPos, search, w) ==
    IF w.characterMatches /\ w.indexSearch = Len(search)
        THEN [ret |-> pos, length |-> w.indexDocument]
        ELSE FindDBCSNext(c, NextCharacter(c, pos, IF forward THEN 1 ELSE -1),
                          forward, endPos, limitPos, search)

FindDBCS(c, pos, forward, endPos, limitPos, search) ==
    IF (IF forward THEN pos < endPos ELSE pos >= endPos)
        THEN FindDBCSWindow(c, pos, forward, endPos, limitPos, search,
                            WindowDBCS(c, pos, 0, 0, TRUE, Fold(search), limitPos))
        ELSE NotFound(search)

\* The test of one position of the case insensitive search over single bytes
FoundFolded(c, pos, search, limitPos) ==
    /\ pos + Len(search) <= limitPos
    /\ \A indexSearch \in 0..(Len(search) - 1) :
            FoldByte(CharAt(c, pos + indexSearch)) = Fold(search)[indexSearch + 1]

\* The loop of the case insensitive search over single bytes
RECURSIVE FindFolded(_, _, _, _, _, _)
FindFoldedNext(c, next, forward, endSearch, limitPos, search) ==
    IF next.moved
        THEN FindFolded(c, next.pos, forward, endSearch, limitPos, search)
        ELSE NotFound(search)

FindFolded(c, pos, forward, endSearch, limitPos, search) ==
    IF (IF forward THEN pos < endSearch ELSE pos >= endSearch)
        THEN IF FoundFolded(c, pos, search, limitPos)
                THEN [ret |-> pos, length |-> Len(search)]
                ELSE FindFoldedNext(c, NextCharacter(c, pos, IF forward THEN 1 ELSE -1),
                                    forward, endSearch, limitPos, search)
        ELSE NotFound(search)

\* endSearch of the searches that compare every byte
EndSearch(startPos, endPos, lengthFind) ==
    IF startPos <= endPos THEN endPos - lengthFind + 1 ELSE endPos

\* FindText once the ends of the range are normalised
FindTextIn(c, forward, startPos, endPos, pos, search, caseSensitive) ==
    IF caseSensitive
        THEN FindSensitive(c, pos, forward, EndSearch(startPos, endPos, Len(search)),
                           IF startPos > endPos THEN startPos ELSE endPos, search)
    ELSE IF c.dbcsCodePage = SC_CP_UTF8
        THEN FindUTF8(c, pos, forward, endPos,
                      IF startPos > endPos THEN startPos ELSE endPos, search)
    ELSE IF c.dbcsCodePage # 0
        THEN FindDBCS(c, pos, forward, endPos,
                      IF startPos > endPos THEN startPos ELSE endPos, search)
    ELSE FindFolded(c, pos, forward, EndSearch(startPos, endPos, Len(search)),
                    IF startPos > endPos THEN startPos ELSE endPos, search)

FindTextFrom(c, forward, startPos, endPos, search, caseSensitive) ==
    FindTextIn(c, forward, startPos, endPos,
               IF forward THEN startPos ELSE NextPosition(c, startPos, -1),
               search, caseSensitive)

\* Document::FindText of the literal `search` of *length = Len(search) bytes, with
\* SCFIND_MATCHCASE or with no flag: the position returned and *length.  The case
\* insensitive search calls the case folder c.pcf.
FindText(c, minPos, maxPos, search, caseSensitive) ==
    IF Len(search) <= 0 THEN [ret |-> minPos, length |-> Len(search)]
    ELSE FindTextFrom(c, minPos <= maxPos,
                      MovePositionOutsideChar(c, minPos, IF minPos <= maxPos THEN 1 ELSE -1,
                                              FALSE),
                      MovePositionOutsideChar(c, maxPos, IF minPos <= maxPos THEN 1 ELSE -1,
                                              FALSE),
                      search, caseSensitive)

\* Document::SetDBCSCodePage: a change of code page deletes the case folder.  The line
\* end types stay the default ones.
SetDBCSCodePage(cd, dbcsCodePage_) ==
    IF cd.dbcsCodePage # dbcsCodePage_
        THEN [dbcsCodePage |-> dbcsCodePage_, pcf |-> "NULL"]
        ELSE cd

\* Document::SetCaseFolder
SetCaseFolder(cd, pcf_) == [cd EXCEPT !.pcf = pcf_]

\* Document::HasCaseFolder
HasCaseFolder(cd) == cd.pcf # "NULL"

\* No search yet
NoSearch == [ret |-> -2, length |-> 0]

\* No call of ConvertLineEnds is in progress.  During a call pc is "loop", pos and
\* eolModeSet are the variables of the function, groupNeeded is UndoGroup's member,
\* inProgress tells that the call was made from the notification of a modification,
\* and turn changes with every iteration of the loop.
NoConversion ==
    [pc |-> "idle", pos |-> 0, eolModeSet |-> "SC_EOL_CRLF", groupNeeded |-> FALSE,
     inProgress |-> FALSE, turn |-> 0]

\* ------------------------------------------------------------------ state
\* The watchers of the model: one that only listens, and one for each call a watcher
\* makes from inside a notification.
Quiet == {"none"}
Watchers == {"none", "InsertString", "DeleteChars", "Undo", "Redo", "SetReadOnly"}

\* The watchers that call ChangeInsertion: from the INSERTCHECK notification, or from
\* the notifications after it.
InsertionWatchers == {"none", "ChangeInsertion", "ChangeInsertionLate"}

\* The strings InsertString is called with, and the strings that are typed.
InsertTexts == {<<c>> : c \in Chars} \cup {<<"a", "a">>}

\* The strings inserted where the bytes of the undo records are compared.
ScrapTexts == {<<c>> : c \in Chars}

\* The strings of the three kinds of line end and of none.
LineTexts == {<<"a">>, <<"\r">>, <<"\n">>, <<"\r", "\n">>}

\* The values of the runs of a RunStyles.
RunValues == {0, 1, 2}

\* The elements of the SplitVector, the arrays InsertFromArray copies from and the
\* values SetGrowSize is called with.
Elements == {1, 2}
ElementArrays == {<<1, 2>>, <<2, 2, 1>>}
GrowSizes == {1, 8}

\* The heights SetHeight is called with: a line takes one display line, or two when
\* it is wrapped.
LineHeights == {1, 2}

\* The bytes of the documents that are searched: two letters that differ by case, a
\* line feed, 0xCE and 0x93.  In UTF-8 0xCE 0x93 is a character, 0xCE a lead byte and
\* 0x93 a trail byte; in code page 932 0x93 is a lead byte and 0xCE a character.
FindBytes == {"b", "B", "\n", "CE", "93"}
FindTexts == {<<ch>> : ch \in FindBytes}
CodePages == {0, SC_CP_UTF8, 932}
CaseFolders == {"NULL", "table"}

\* The needles: the empty one, each byte, and strings of two bytes: a character of
\* UTF-8, two characters of code page 932, and two letters.
Needles ==
    {<<>>} \cup FindTexts
        \cup {<<"CE", "93">>, <<"93", "b">>, <<"93", "93">>, <<"b", "b">>, <<"B", "b">>}

\* The style bytes a lexer sets, and the arrays of them SetStyles is called with.
StyleValues == {0, 1}
StyleArrays == {<<v>> : v \in StyleValues} \cup {<<0, 1>>, <<1, 0>>}
TypedTexts == {<<"a">>}

\* The document of the current state, about to be called with watcher w listening;
\* wild is the byte that a read outside the scrap stack's string yields.  The fields
\* after broken are the record of the call in progress: the notifications sent and
\* the callbacks made, the notification being delivered, the value returned and the
\* caller's startSequence.
Cur(w, wild) ==
    [substance |-> substance, style |-> style, starts |-> starts, readOnly |-> readOnly,
     collectingUndo |-> collectingUndo, actions |-> actions, maxAction |-> maxAction,
     currentAction |-> currentAction, undoSequenceDepth |-> undoSequenceDepth,
     savePoint |-> savePoint, tentativePoint |-> tentativePoint, detach |-> detach,
     scraps |-> scraps, enteredModification |-> enteredModification,
     enteredStyling |-> enteredStyling,
     enteredReadOnlyCount |-> enteredReadOnlyCount, endStyled |-> endStyled,
     insertionSet |-> insertionSet, insertion |-> insertion, broken |-> broken,
     notes |-> <<>>, nested |-> <<>>, watch |-> w, inWatcher |-> FALSE, wild |-> wild,
     during |-> "", ret |-> 0, startSequence |-> FALSE]

\* The document of the current state in a call that reads no scrap: with watcher w
\* listening, and with no watcher calling back.
Watched(w) == Cur(w, "a")
Doc == Watched("none")

\* The text of the current state with its code page and its case folder, as the const
\* members of Document read it.
Text ==
    [substance |-> substance, starts |-> starts, dbcsCodePage |-> coding.dbcsCodePage,
     pcf |-> coding.pcf]

\* The state after a call that left the document d.
Install(d) ==
    /\ substance' = d.substance
    /\ style' = d.style
    /\ starts' = d.starts
    /\ readOnly' = d.readOnly
    /\ collectingUndo' = d.collectingUndo
    /\ actions' = d.actions
    /\ maxAction' = d.maxAction
    /\ currentAction' = d.currentAction
    /\ undoSequenceDepth' = d.undoSequenceDepth
    /\ savePoint' = d.savePoint
    /\ tentativePoint' = d.tentativePoint
    /\ detach' = d.detach
    /\ scraps' = d.scraps
    /\ enteredModification' = d.enteredModification
    /\ enteredStyling' = d.enteredStyling
    /\ enteredReadOnlyCount' = d.enteredReadOnlyCount
    /\ endStyled' = d.endStyled
    /\ insertionSet' = d.insertionSet
    /\ insertion' = d.insertion
    /\ broken' = d.broken

\* ------------------------------------------------------------ observations
\* What a specification observes of the calls: "saved" the save point, "typed" the
\* runs of typed characters, "group" the undo groups.  An observation that is not
\* made keeps its first value.
ObsNone == {}
ObsSaved == {"saved"}
ObsTyped == {"typed"}
ObsGroup == {"group"}
ObsComposing == {"composing"}
ObsOwned == {"owned"}

\* TRUE when the call op that returned ret recorded an edit in the undo history.
Recorded(op, ret) ==
    /\ collectingUndo
    /\ \/ (op = "InsertString" /\ ret > 0)
       \/ (op = "DeleteChars" /\ ret = TRUE)

NoSave == [set |-> FALSE, text |-> <<>>, grouped |-> FALSE, lost |-> FALSE,
           onlyEdits |-> FALSE]

\* The save point after the call op: the text when SetSavePoint was called and
\* whether an undo group was open then, whether an edit has since been recorded below
\* the save point, and whether only edits and undo groups have happened since.
Saving(obs, op, ret) ==
    IF "saved" \notin obs THEN saved
    ELSE IF op = "SetSavePoint"
        THEN [set |-> TRUE, text |-> substance, grouped |-> undoSequenceDepth > 0,
              lost |-> FALSE, onlyEdits |-> TRUE]
    ELSE IF op \in {"InsertString", "DeleteChars"}
        THEN [saved EXCEPT !.lost = @ \/ (Recorded(op, ret) /\ currentAction < savePoint)]
    ELSE IF op \in {"BeginUndoAction", "EndUndoAction"} THEN saved
    ELSE [saved EXCEPT !.onlyEdits = FALSE]

NoTyping == [n |-> 0, at |-> 0, from |-> 0]

\* The run of characters typed one after the other, after the call op: their number,
\* the position of the first one, and maxAction when the first one was typed.
Typing(obs, op, args, ret) ==
    IF "typed" \notin obs THEN typed
    ELSE IF op = "InsertString" /\ Recorded(op, ret) /\ Len(args[2]) = 1
            /\ undoSequenceDepth = 0
        THEN IF typed.n > 0 /\ args[1] = typed.at + typed.n
                THEN [typed EXCEPT !.n = @ + 1]
                ELSE [n |-> 1, at |-> args[1], from |-> maxAction]
        ELSE NoTyping

NoGroup == [phase |-> "none", text |-> <<>>, at |-> 0, edits |-> 0,
            inner |-> FALSE, after |-> FALSE]

\* The outermost undo group after the call op that left the document d, for as long
\* as only edits and nested groups happen in it: the text and currentAction when it
\* was opened, the edits recorded in it (counted up to 2), whether a nested group was
\* closed in it and an edit recorded after that, and whether it is open or was closed
\* by this call.
Grouping(obs, op, d, ret) ==
    IF "group" \notin obs THEN group
    ELSE IF op = "BeginUndoAction" /\ undoSequenceDepth = 0
        THEN [NoGroup EXCEPT !.phase = "open", !.text = substance, !.at = d.currentAction]
    ELSE IF group.phase # "open" THEN NoGroup
    ELSE IF op = "BeginUndoAction" THEN group
    ELSE IF op = "EndUndoAction"
        THEN IF d.undoSequenceDepth = 0 THEN [group EXCEPT !.phase = "closed"]
             ELSE [group EXCEPT !.inner = TRUE]
    ELSE IF op \in {"InsertString", "DeleteChars"}
        THEN IF Recorded(op, ret)
                THEN [group EXCEPT !.edits = IF @ < 2 THEN @ + 1 ELSE @,
                                   !.after = @ \/ group.inner]
                ELSE group
    ELSE NoGroup

NoComposing == [on |-> FALSE, text |-> <<>>, edits |-> 0]

\* Tentative mode after the call op, for as long as only InsertString and DeleteChars
\* are called in it: the text when TentativeStart was called and the edits recorded
\* since (counted up to 2).
Composition(obs, op, ret) ==
    IF "composing" \notin obs THEN composing
    ELSE IF op = "TentativeStart" THEN [on |-> TRUE, text |-> substance, edits |-> 0]
    ELSE IF op \in {"InsertString", "DeleteChars"} /\ composing.on
        THEN IF Recorded(op, ret)
                THEN [composing EXCEPT !.edits = IF @ < 2 THEN @ + 1 ELSE @]
                ELSE composing
    ELSE NoComposing

NoOwned == <<<<>>>>

\* The bytes of the edit that the call op with arguments args made.
EditBytes(op, args) ==
    IF op = "InsertString" THEN args[2]
    ELSE SubSeq(substance, args[1] + 1, args[1] + args[2])

\* What a history of records that own their bytes would hold after the call op
\* that left the document d: slot by slot, the bytes AppendAction was called with;
\* a slot that holds no edit, and a slot written for another record, holds none.
Owning(obs, op, args, d, ret) ==
    IF "owned" \notin obs THEN owned
    ELSE IF Recorded(op, ret)
        THEN [k \in 1..Len(d.actions) |->
                IF k = d.currentAction THEN EditBytes(op, args)
                ELSE IF k < d.currentAction /\ k <= Len(owned) THEN owned[k]
                ELSE <<>>]
    ELSE [k \in 1..Len(d.actions) |->
            IF k <= Len(owned) /\ d.actions[k].at \in {"insert", "remove"}
                THEN owned[k] ELSE <<>>]

\* The observations after the call op with arguments args that left the document d
\* and returned ret.  A call on the document leaves the other structures alone.
Observe(obs, op, args, d, ret) ==
    /\ owned' = Owning(obs, op, args, d, ret)
    /\ saved' = Saving(obs, op, ret)
    /\ typed' = Typing(obs, op, args, ret)
    /\ group' = Grouping(obs, op, d, ret)
    /\ composing' = Composition(obs, op, ret)
    /\ UNCHANGED <<runs, cs, sv, coding, found, conv, scaled>>


\* The document as its constructors leave it.
InitDocument ==
    /\ substance = <<>>
    /\ style = <<>>
    /\ starts = LvInit
    /\ readOnly = FALSE
    /\ collectingUndo = TRUE
    /\ actions = <<CreateStart>>
    /\ maxAction = 0
    /\ currentAction = 0
    /\ undoSequenceDepth = 0
    /\ savePoint = 0
    /\ tentativePoint = -1
    /\ detach = NoDetach
    /\ scraps = [stack |-> <<>>, current |-> 0]
    /\ owned = NoOwned
    /\ scaled = UndoActionsInit
    /\ enteredModification = 0
    /\ enteredStyling = 0
    /\ enteredReadOnlyCount = 0
    /\ endStyled = 0
    /\ insertionSet = FALSE
    /\ insertion = <<>>
    /\ broken = FALSE
    /\ saved = NoSave
    /\ typed = NoTyping
    /\ group = NoGroup
    /\ composing = NoComposing
    /\ runs = RunStylesInit
    /\ cs = Clear
    /\ sv = SvInit
    /\ coding = [dbcsCodePage |-> 0, pcf |-> "NULL"]
    /\ found = NoSearch
    /\ conv = NoConversion

Init == InitDocument

\* ---------------------------------------------------------------- actions
\* Each action is one call by the application, with a watcher from W listening and
\* the observations obs recorded.
DoInsertString(W, obs, texts) ==
    \E w \in W, position \in 0..Len(substance), s \in texts :
        /\ ~broken
        /\ Len(substance) + Len(s) <= MaxLen
        /\ \E r \in {InsertString(Watched(w), position, s)} :
            /\ Len(r.substance) <= MaxLen
            /\ r.maxAction <= MaxActions
            /\ Len(r.scraps.stack) <= MaxStack
            /\ Install(r)
            /\ Observe(obs, "InsertString", <<position, s>>, r, r.ret)

\* InsertString of one character, in the longer documents that are only typed into.
DoTypeCharacter(obs) ==
    \E position \in 0..Len(substance), s \in TypedTexts :
        /\ ~broken
        /\ Len(substance) + Len(s) <= MaxTyped
        /\ \E r \in {InsertString(Doc, position, s)} :
            /\ r.maxAction <= MaxTypedActions
            /\ Install(r)
            /\ Observe(obs, "InsertString", <<position, s>>, r, r.ret)

\* Undo() and Redo() in the longer documents that are only typed into.
DoUndoTyped(obs) ==
    \E g \in Chars :
        /\ ~broken
        /\ \E r \in {Undo(Cur("none", g))} :
            /\ Install(r)
            /\ Observe(obs, "Undo", <<>>, r, r.ret)

DoRedoTyped(obs) ==
    \E g \in Chars :
        /\ ~broken
        /\ \E r \in {Redo(Cur("none", g))} :
            /\ Install(r)
            /\ Observe(obs, "Redo", <<>>, r, r.ret)

DoDeleteChars(W, obs) ==
    \E w \in W, pos \in 0..(Len(substance) - 1) :
        \E len \in 1..(Len(substance) - pos) :
            /\ ~broken
            /\ \E r \in {DeleteChars(Watched(w), pos, len)} :
                /\ r.maxAction <= MaxActions
                /\ Len(r.scraps.stack) <= MaxStack
                /\ Install(r)
                /\ Observe(obs, "DeleteChars", <<pos, len>>, r, r.ret)

DoUndo(W, obs) ==
    \E w \in W, g \in Chars :
        /\ ~broken
        /\ \E r \in {Undo(Cur(w, g))} :
            /\ Len(r.substance) <= MaxLen
            /\ Install(r)
            /\ Observe(obs, "Undo", <<>>, r, r.ret)

DoRedo(W, obs) ==
    \E w \in W, g \in Chars :
        /\ ~broken
        /\ \E r \in {Redo(Cur(w, g))} :
            /\ Len(r.substance) <= MaxLen
            /\ Install(r)
            /\ Observe(obs, "Redo", <<>>, r, r.ret)

DoBeginUndoAction(obs) ==
    /\ ~broken
    /\ undoSequenceDepth < MaxDepth
    /\ \E r \in {BeginUndoAction(Doc)} :
        /\ r.maxAction <= MaxActions
        /\ Install(r)
        /\ Observe(obs, "BeginUndoAction", <<>>, r, 0)

DoEndUndoAction(obs) ==
    /\ ~broken
    /\ undoSequenceDepth > 0
    /\ \E r \in {EndUndoAction(Doc)} :
        /\ r.maxAction <= MaxActions
        /\ Install(r)
        /\ Observe(obs, "EndUndoAction", <<>>, r, 0)

DoSetSavePoint(W, obs) ==
    \E w \in W, g \in Chars :
        /\ ~broken
        /\ \E r \in {DocSetSavePoint(Cur(w, g))} :
            /\ Install(r)
            /\ Observe(obs, "SetSavePoint", <<>>, r, 0)

DoSetReadOnly(obs) ==
    \E set \in BOOLEAN :
        /\ ~broken
        /\ set # readOnly
        /\ \E r \in {[Doc EXCEPT !.readOnly = set]} :
            /\ Install(r)
            /\ Observe(obs, "SetReadOnly", <<set>>, r, 0)

DoTentativeStart(obs) ==
    /\ ~broken
    /\ \E r \in {TentativeStart(Doc)} :
        /\ Install(r)
        /\ Observe(obs, "TentativeStart", <<>>, r, 0)

DoTentativeCommit(obs) ==
    /\ ~broken
    /\ \E r \in {TentativeCommit(Doc)} :
        /\ Install(r)
        /\ Observe(obs, "TentativeCommit", <<>>, r, 0)

DoDeleteUndoHistory(obs) ==
    /\ ~broken
    /\ \E r \in {DeleteUndoHistory(Doc)} :
        /\ Install(r)
        /\ Observe(obs, "DeleteUndoHistory", <<>>, r, 0)

DoTentativeUndo(W, obs) ==
    \E w \in W, g \in Chars :
        /\ ~broken
        /\ \E r \in {TentativeUndo(Cur(w, g))} :
            /\ Len(r.substance) <= MaxLen
            /\ Install(r)
            /\ Observe(obs, "TentativeUndo", <<>>, r, 0)

\* InsertString called with a position outside the document.
DoInsertStringOutside(obs, texts) ==
    \E position \in {-1, Len(substance) + 1}, s \in texts :
        /\ ~broken
        /\ \E r \in {InsertString(Doc, position, s)} :
            /\ r.maxAction <= MaxActions
            /\ Len(r.scraps.stack) <= MaxStack
            /\ Install(r)
            /\ Observe(obs, "InsertString", <<position, s>>, r, r.ret)

DoStartStyling(obs) ==
    \E position \in 0..Len(substance) :
        /\ ~broken
        /\ position # endStyled
        /\ \E r \in {StartStyling(Doc, position)} :
            /\ Install(r)
            /\ Observe(obs, "StartStyling", <<position>>, r, 0)

\* SetStyleFor on a range that ends inside the document.
DoSetStyleFor(W, obs) ==
    \E w \in W, length \in 0..(Len(substance) - endStyled), styleValue \in StyleValues :
        /\ ~broken
        /\ \E r \in {SetStyleFor(Watched(w), length, styleValue)} :
            /\ Install(r)
            /\ Observe(obs, "SetStyleFor", <<length, styleValue>>, r, r.ret)

\* SetStyles on a range that ends inside the document.
DoSetStyles(W, obs) ==
    \E w \in W, styles \in StyleArrays :
        /\ ~broken
        /\ endStyled + Len(styles) <= Len(substance)
        /\ \E r \in {SetStyles(Watched(w), styles)} :
            /\ Install(r)
            /\ Observe(obs, "SetStyles", <<styles>>, r, r.ret)

DoChangeInsertion(obs) ==
    \E s \in {<<>>, ChangeText} :
        /\ ~broken
        /\ \E r \in {ChangeInsertion(Doc, s)} :
            /\ Install(r)
            /\ Observe(obs, "ChangeInsertion", <<s>>, r, 0)

\* The variables of the document and the observations of its calls.
DocVars == <<substance, style, starts, readOnly, collectingUndo, actions, maxAction,
             currentAction, undoSequenceDepth, savePoint, tentativePoint, detach,
             scraps, enteredModification, enteredStyling, enteredReadOnlyCount,
             endStyled, insertionSet, insertion, broken, saved, typed, group, composing,
             owned>>

\* The calls on a RunStyles, with arguments inside it.
DoFillRange ==
    \E position \in 0..(RunsLength(runs) - 1), value \in RunValues :
        \E fillLength \in 1..(RunsLength(runs) - position) :
            /\ runs' = FillRange(runs, position, value, fillLength).rs
            /\ UNCHANGED <<DocVars, cs, sv, coding, found, conv, scaled>>

DoRunSetValueAt ==
    \E position \in 0..(RunsLength(runs) - 1), value \in RunValues :
        /\ runs' = RunSetValueAt(runs, position, value)
        /\ UNCHANGED <<DocVars, cs, sv, coding, found, conv, scaled>>

DoInsertSpace ==
    \E position \in 0..RunsLength(runs) :
        \E insertLength \in 1..(MaxRunsLength - RunsLength(runs)) :
            /\ runs' = InsertSpace(runs, position, insertLength)
            /\ UNCHANGED <<DocVars, cs, sv, coding, found, conv, scaled>>

DoRunDeleteRange ==
    \E position \in 0..(RunsLength(runs) - 1) :
        \E deleteLength \in 1..(RunsLength(runs) - position) :
            /\ runs' = RunDeleteRange(runs, position, deleteLength)
            /\ UNCHANGED <<DocVars, cs, sv, coding, found, conv, scaled>>

DoDeleteAll ==
    /\ runs' = RunStylesInit
    /\ UNCHANGED <<DocVars, cs, sv, coding, found, conv, scaled>>

\* The calls on a ContractionState, with line arguments inside it.  The document
\* keeps one line at least.
DoCsInsertLine ==
    \E lineDoc \in 0..LinesInDoc(cs) :
        /\ LinesInDoc(cs) < MaxLines
        /\ cs' = CsInsertLine(cs, lineDoc)
        /\ UNCHANGED <<DocVars, runs, sv, coding, found, conv, scaled>>

DoCsInsertLines ==
    \E lineDoc \in 0..LinesInDoc(cs) :
        \E lineCount \in 1..(MaxLines - LinesInDoc(cs)) :
            /\ cs' = CsInsertLines(cs, lineDoc, lineCount)
            /\ UNCHANGED <<DocVars, runs, sv, coding, found, conv, scaled>>

DoCsDeleteLine ==
    \E lineDoc \in 0..(LinesInDoc(cs) - 1) :
        /\ LinesInDoc(cs) > 1
        /\ cs' = CsDeleteLine(cs, lineDoc)
        /\ UNCHANGED <<DocVars, runs, sv, coding, found, conv, scaled>>

DoCsDeleteLines ==
    \E lineDoc \in 0..(LinesInDoc(cs) - 1) :
        \E lineCount \in 1..(LinesInDoc(cs) - lineDoc) :
            /\ lineCount < LinesInDoc(cs)
            /\ cs' = CsDeleteLines(cs, lineDoc, lineCount)
            /\ UNCHANGED <<DocVars, runs, sv, coding, found, conv, scaled>>

DoSetVisible ==
    \E lineDocStart \in 0..(LinesInDoc(cs) - 1), isVisible \in BOOLEAN :
        \E lineDocEnd \in lineDocStart..(LinesInDoc(cs) - 1) :
            /\ cs' = SetVisible(cs, lineDocStart, lineDocEnd, isVisible).cs
            /\ UNCHANGED <<DocVars, runs, sv, coding, found, conv, scaled>>

DoSetExpanded ==
    \E lineDoc \in 0..(LinesInDoc(cs) - 1), isExpanded \in BOOLEAN :
        /\ cs' = SetExpanded(cs, lineDoc, isExpanded).cs
        /\ UNCHANGED <<DocVars, runs, sv, coding, found, conv, scaled>>

DoSetHeight ==
    \E lineDoc \in 0..(LinesInDoc(cs) - 1), height \in LineHeights :
        /\ cs' = SetHeight(cs, lineDoc, height).cs
        /\ UNCHANGED <<DocVars, runs, sv, coding, found, conv, scaled>>

DoShowAll ==
    /\ cs' = ShowAll(cs)
    /\ UNCHANGED <<DocVars, runs, sv, coding, found, conv, scaled>>

\* The calls on a SplitVector, with positions inside it and one step outside it.
DoSvInsert ==
    \E position \in (-1)..(SvLength(sv) + 1), x \in Elements :
        /\ SvLength(sv) < MaxVector
        /\ ~sv.fault
        /\ \E build \in Builds(sv) :
            sv' = SvInsert([sv EXCEPT !.build = build], position, x)
        /\ UNCHANGED <<DocVars, runs, cs, coding, found, conv, scaled>>

DoSvInsertValue ==
    \E position \in (-1)..(SvLength(sv) + 1), x \in Elements :
        \E insertLength \in 0..(MaxVector - SvLength(sv)) :
            /\ ~sv.fault
            /\ \E build \in Builds(sv) :
                sv' = SvInsertValue([sv EXCEPT !.build = build], position, insertLength, x)
            /\ UNCHANGED <<DocVars, runs, cs, coding, found, conv, scaled>>

DoSvInsertFromArray ==
    \E positionToInsert \in (-1)..(SvLength(sv) + 1), s \in ElementArrays :
        \E positionFrom \in 0..(Len(s) - 1) :
            \E insertLength \in 1..(Len(s) - positionFrom) :
                /\ SvLength(sv) + insertLength <= MaxVector
                /\ ~sv.fault
                /\ \E build \in Builds(sv) :
                    sv' = SvInsertFromArray([sv EXCEPT !.build = build],
                                            positionToInsert, s, positionFrom, insertLength)
                /\ UNCHANGED <<DocVars, runs, cs, coding, found, conv, scaled>>

DoSvSetValueAt ==
    \E position \in (-1)..SvLength(sv), x \in Elements :
        /\ ~sv.fault
        /\ \E build \in Builds(sv) :
            sv' = SvSetValueAt([sv EXCEPT !.build = build], position, x)
        /\ UNCHANGED <<DocVars, runs, cs, coding, found, conv, scaled>>

DoSvDelete ==
    \E position \in (-1)..SvLength(sv) :
        /\ ~sv.fault
        /\ \E build \in Builds(sv) :
            sv' = SvDelete([sv EXCEPT !.build = build], position)
        /\ UNCHANGED <<DocVars, runs, cs, coding, found, conv, scaled>>

DoSvDeleteRange ==
    \E position \in (-1)..(SvLength(sv) + 1), deleteLength \in 0..(SvLength(sv) + 1) :
        /\ ~sv.fault
        /\ \E build \in Builds(sv) :
            sv' = SvDeleteRange([sv EXCEPT !.build = build], position, deleteLength)
        /\ UNCHANGED <<DocVars, runs, cs, coding, found, conv, scaled>>

\* UndoActions::Create and CreateStart, as AppendAction calls them for the slot at
\* currentAction, wherever undo and redo have left it.
DoCreate ==
    \E index \in 0..(ScaledSlots - 1), position_ \in PositionValues,
       lenData_ \in LengthValues :
        /\ ~scaled.positions.fault /\ ~scaled.lengths.fault
        /\ scaled' = UaCreate(scaled, index, position_, lenData_)
        /\ UNCHANGED <<DocVars, runs, cs, sv, coding, found, conv>>

DoCreateStart ==
    \E index \in 0..(ScaledSlots - 1) :
        /\ ~scaled.positions.fault /\ ~scaled.lengths.fault
        /\ scaled' = UaCreateStart(scaled, index)
        /\ UNCHANGED <<DocVars, runs, cs, sv, coding, found, conv>>

\* BufferPointer() and RangePointer() by the owner of the vector.
DoSvBufferPointer ==
    /\ ~sv.fault
    /\ \E build \in Builds(sv) : sv' = SvBufferPointer([sv EXCEPT !.build = build])
    /\ UNCHANGED <<DocVars, runs, cs, coding, found, conv, scaled>>

DoSvRangePointer ==
    \E position \in 0..SvLength(sv) :
        \E rangeLength \in 0..(SvLength(sv) - position) :
            /\ ~sv.fault
            /\ \E build \in Builds(sv) :
                sv' = SvRangePointer([sv EXCEPT !.build = build], position, rangeLength)
            /\ UNCHANGED <<DocVars, runs, cs, coding, found, conv, scaled>>

\* An insertion of insertLength elements (by Insert, InsertValue or InsertFromArray,
\* inside the vector) that needs a larger array when there is no memory for it: the
\* exception is caught by the caller, who goes on using the vector.
DoSvInsertThrows ==
    \E insertLength \in 1..MaxVector :
        /\ ~sv.fault
        /\ Allocates(sv, insertLength)
        /\ \E build \in Builds(sv) :
            sv' = RoomForThrows([sv EXCEPT !.build = build], insertLength)
        /\ UNCHANGED <<DocVars, runs, cs, coding, found, conv, scaled>>

DoSetGrowSize ==
    \E growSize \in GrowSizes :
        /\ ~sv.fault
        /\ \E build \in Builds(sv) :
            sv' = SetGrowSize([sv EXCEPT !.build = build], growSize)
        /\ UNCHANGED <<DocVars, runs, cs, coding, found, conv, scaled>>

\* SetDBCSCodePage by the application.
DoSetDBCSCodePage ==
    \E dbcsCodePage_ \in CodePages :
        /\ ~broken
        /\ coding' = SetDBCSCodePage(coding, dbcsCodePage_)
        /\ UNCHANGED <<DocVars, runs, cs, sv, found, conv, scaled>>

\* ConvertLineEnds is called, by the application or, when inProgress, by a watcher
\* from the notification of a modification (enteredModification is 1): the UndoGroup
\* is constructed and the loop starts at 0.
DoConvertLineEnds ==
    \E eolModeSet \in EolModes, inProgress \in BOOLEAN :
        /\ ~broken
        /\ conv.pc = "idle"
        /\ maxAction <= MaxActions
        /\ Install(UndoGroupBegin(
                [Doc EXCEPT !.enteredModification = IF inProgress THEN 1 ELSE 0]))
        /\ conv' = [pc |-> "loop", pos |-> 0, eolModeSet |-> eolModeSet,
                    groupNeeded |-> collectingUndo, inProgress |-> inProgress,
                    turn |-> 0]
        /\ UNCHANGED <<saved, typed, group, composing, owned, runs, cs, sv, coding, found, scaled>>

\* One iteration of the loop of ConvertLineEnds.
DoConvertLineEndsLoop ==
    /\ conv.pc = "loop"
    /\ conv.pos < Len(substance)
    /\ \E r \in {ConvertLineEndsStep(Doc, conv.pos, conv.eolModeSet)} :
        /\ Install(r.doc)
        /\ conv' = [conv EXCEPT !.pos = r.pos, !.turn = 1 - @]
    /\ UNCHANGED <<saved, typed, group, composing, owned, runs, cs, sv, coding, found, scaled>>

\* The loop of ConvertLineEnds ends and the UndoGroup is destroyed.  A call made by
\* a watcher returns into the modification in progress.
DoConvertLineEndsReturn ==
    /\ conv.pc = "loop"
    /\ conv.pos >= Len(substance)
    /\ Install(UndoGroupEnd(Doc, conv.groupNeeded))
    /\ conv' = IF conv.inProgress THEN [conv EXCEPT !.pc = "returned"] ELSE NoConversion
    /\ UNCHANGED <<saved, typed, group, composing, owned, runs, cs, sv, coding, found, scaled>>

\* SetCaseFolder by the application, with a folder or with none.
DoSetCaseFolder ==
    \E pcf_ \in CaseFolders :
        /\ ~broken
        /\ coding' = SetCaseFolder(coding, pcf_)
        /\ UNCHANGED <<DocVars, runs, cs, sv, found, conv, scaled>>

\* FindText by the application, between two positions of the text.  A case insensitive
\* search of a document with no case folder calls Fold through a null pointer.
DoFindText ==
    \E minPos \in 0..Len(substance), maxPos \in 0..Len(substance), search \in Needles,
       caseSensitive \in BOOLEAN :
        /\ ~broken
        /\ IF Len(search) > 0 /\ ~caseSensitive /\ ~HasCaseFolder(coding)
            THEN Install([Doc EXCEPT !.broken = TRUE]) /\ UNCHANGED found
            ELSE Install(Doc)
                 /\ found' = FindText(Text, minPos, maxPos, search, caseSensitive)
        /\ UNCHANGED <<saved, typed, group, composing, owned, runs, cs, sv, coding, conv, scaled>>

\* The edits, undo and redo, undo groups, the save point and the read-only flag,
\* with no watcher calling back.
Next ==
    \/ DoInsertString(Quiet, ObsNone, InsertTexts)
    \/ DoDeleteChars(Quiet, ObsNone)
    \/ DoUndo(Quiet, ObsNone)
    \/ DoRedo(Quiet, ObsNone)
    \/ DoBeginUndoAction(ObsNone)
    \/ DoEndUndoAction(ObsNone)
    \/ DoSetSavePoint(Quiet, ObsNone)
    \/ DoSetReadOnly(ObsNone)

Spec == Init /\ [][Next]_vars

\* Edits, undo and redo, undo groups and the save point, with the save point observed.
NextSaved ==
    \/ DoInsertString(Quiet, ObsSaved, InsertTexts)
    \/ DoDeleteChars(Quiet, ObsSaved)
    \/ DoUndo(Quiet, ObsSaved)
    \/ DoRedo(Quiet, ObsSaved)
    \/ DoBeginUndoAction(ObsSaved)
    \/ DoEndUndoAction(ObsSaved)
    \/ DoSetSavePoint(Quiet, ObsSaved)

SpecSaved == Init /\ [][NextSaved]_vars

\* The same calls with the undo groups observed.
NextGroup ==
    \/ DoInsertString(Quiet, ObsGroup, InsertTexts)
    \/ DoDeleteChars(Quiet, ObsGroup)
    \/ DoUndo(Quiet, ObsGroup)
    \/ DoRedo(Quiet, ObsGroup)
    \/ DoBeginUndoAction(ObsGroup)
    \/ DoEndUndoAction(ObsGroup)
    \/ DoSetSavePoint(Quiet, ObsGroup)

SpecGroup == Init /\ [][NextGroup]_vars

\* Typing, deleting, undo and redo with tentative (input composition) mode; the runs
\* of typed characters are observed.
NextTentative ==
    \/ DoInsertString(Quiet, ObsTyped, TypedTexts)
    \/ DoDeleteChars(Quiet, ObsTyped)
    \/ DoUndo(Quiet, ObsTyped)
    \/ DoRedo(Quiet, ObsTyped)
    \/ DoTentativeStart(ObsTyped)
    \/ DoTentativeCommit(ObsTyped)
    \/ DoTentativeUndo(Quiet, ObsTyped)

SpecTentative == Init /\ [][NextTentative]_vars

\* The calls that change the text, each with a watcher that may call back into the
\* document from inside a notification, and the read-only flag.
NextNotify ==
    \/ DoInsertString(Watchers, ObsNone, TypedTexts)
    \/ DoDeleteChars(Watchers, ObsNone)
    \/ DoUndo(Watchers, ObsNone)
    \/ DoRedo(Watchers, ObsNone)
    \/ DoSetReadOnly(ObsNone)
    \/ DoTentativeStart(ObsNone)
    \/ DoTentativeUndo(Watchers, ObsNone)

SpecNotify == Init /\ [][NextNotify]_vars

\* The edits, undo and redo, with watchers that replace the text of an insertion and
\* with ChangeInsertion called between the edits.
NextInsertion ==
    \/ DoInsertString(InsertionWatchers, ObsNone, InsertTexts)
    \/ DoDeleteChars(InsertionWatchers, ObsNone)
    \/ DoUndo(InsertionWatchers, ObsNone)
    \/ DoRedo(InsertionWatchers, ObsNone)
    \/ DoChangeInsertion(ObsNone)

SpecInsertion == Init /\ [][NextInsertion]_vars

\* The edits, undo and redo, and insertions at positions outside the document.
NextOutside ==
    \/ DoInsertString(Quiet, ObsNone, InsertTexts)
    \/ DoDeleteChars(Quiet, ObsNone)
    \/ DoUndo(Quiet, ObsNone)
    \/ DoRedo(Quiet, ObsNone)
    \/ DoInsertStringOutside(ObsNone, InsertTexts)

SpecOutside == Init /\ [][NextOutside]_vars

\* The edits, undo and redo, the save point and the styling calls of a lexer.
NextStyle ==
    \/ DoInsertString(Quiet, ObsNone, TypedTexts)
    \/ DoDeleteChars(Quiet, ObsNone)
    \/ DoUndo(Quiet, ObsNone)
    \/ DoRedo(Quiet, ObsNone)
    \/ DoSetSavePoint(Quiet, ObsNone)
    \/ DoStartStyling(ObsNone)
    \/ DoSetStyleFor(Quiet, ObsNone)
    \/ DoSetStyles(Quiet, ObsNone)

SpecStyle == Init /\ [][NextStyle]_vars

\* The edits, undo and redo on texts with carriage returns and line feeds.
NextLines ==
    \/ DoInsertString(Quiet, ObsNone, LineTexts)
    \/ DoDeleteChars(Quiet, ObsNone)
    \/ DoUndo(Quiet, ObsNone)
    \/ DoRedo(Quiet, ObsNone)

SpecLines == Init /\ [][NextLines]_vars

\* The calls on a RunStyles.
NextRuns ==
    \/ DoFillRange
    \/ DoRunSetValueAt
    \/ DoInsertSpace
    \/ DoRunDeleteRange
    \/ DoDeleteAll

SpecRuns == Init /\ [][NextRuns]_vars

\* Tentative mode with undo groups: the edits, undo, undo groups, TentativeStart and
\* TentativeUndo, with the text at TentativeStart observed.
NextCompose ==
    \/ DoInsertString(Quiet, ObsComposing, TypedTexts)
    \/ DoDeleteChars(Quiet, ObsComposing)
    \/ DoUndo(Quiet, ObsComposing)
    \/ DoBeginUndoAction(ObsComposing)
    \/ DoEndUndoAction(ObsComposing)
    \/ DoTentativeStart(ObsComposing)
    \/ DoTentativeUndo(Quiet, ObsComposing)

SpecCompose == Init /\ [][NextCompose]_vars

\* The calls on a ContractionState.
NextContraction ==
    \/ DoCsInsertLine
    \/ DoCsInsertLines
    \/ DoCsDeleteLine
    \/ DoCsDeleteLines
    \/ DoSetVisible
    \/ DoSetExpanded
    \/ DoSetHeight
    \/ DoShowAll

SpecContraction == Init /\ [][NextContraction]_vars

\* The calls on a SplitVector.
NextVector ==
    \/ DoSvInsert
    \/ DoSvInsertValue
    \/ DoSvInsertFromArray
    \/ DoSvSetValueAt
    \/ DoSvDelete
    \/ DoSvDeleteRange
    \/ DoSetGrowSize
    \/ DoSvBufferPointer
    \/ DoSvRangePointer
    \/ DoSvInsertThrows

SpecVector == Init /\ [][NextVector]_vars

\* A text of any bytes in any code page, and the searches of it.
NextFind ==
    \/ DoInsertString(Quiet, ObsNone, FindTexts)
    \/ DoSetDBCSCodePage
    \/ DoSetCaseFolder
    \/ DoFindText

SpecFind == Init /\ [][NextFind]_vars

\* Every call that changes the undo history: insertions, undo and redo, undo groups,
\* tentative mode and DeleteUndoHistory.
NextHistory ==
    \/ DoInsertString(Quiet, ObsNone, TypedTexts)
    \/ DoUndo(Quiet, ObsNone)
    \/ DoRedo(Quiet, ObsNone)
    \/ DoBeginUndoAction(ObsNone)
    \/ DoEndUndoAction(ObsNone)
    \/ DoTentativeStart(ObsNone)
    \/ DoTentativeCommit(ObsNone)
    \/ DoTentativeUndo(Quiet, ObsNone)
    \/ DoDeleteUndoHistory(ObsNone)

SpecHistory == Init /\ [][NextHistory]_vars

\* Insertions, undo and redo, tentative mode and DeleteUndoHistory, with the bytes of
\* every recorded edit observed.
NextScraps ==
    \/ DoInsertString(Quiet, ObsOwned, ScrapTexts)
    \/ DoUndo(Quiet, ObsOwned)
    \/ DoRedo(Quiet, ObsOwned)
    \/ DoTentativeStart(ObsOwned)
    \/ DoTentativeCommit(ObsOwned)
    \/ DoTentativeUndo(Quiet, ObsOwned)
    \/ DoDeleteUndoHistory(ObsOwned)

SpecScraps == Init /\ [][NextScraps]_vars

\* The records of an UndoActions written and written again.
NextScaled ==
    \/ DoCreate
    \/ DoCreateStart

SpecScaled == Init /\ [][NextScaled]_vars

\* Texts with carriage returns and line feeds, writable or read-only, and the
\* conversion of their line ends, one iteration of its loop at a time.
NextConvert ==
    \/ conv.pc = "idle" /\ DoInsertString(Quiet, ObsNone, LineTexts)
    \/ conv.pc = "idle" /\ DoSetReadOnly(ObsNone)
    \/ DoConvertLineEnds
    \/ DoConvertLineEndsLoop
    \/ DoConvertLineEndsReturn

SpecConvert == Init /\ [][NextConvert]_vars

\* The condition of the loop of ConvertLineEnds, which enables an iteration, and the
\* step of an iteration: the only step that changes turn during a call.
LoopContinues == conv.pc = "loop" /\ conv.pos < Len(substance)
LoopIterates == conv.pc = "loop" /\ conv'.turn # conv.turn

\* The same with the call running on: a call of ConvertLineEnds is not suspended.
\* The first condition is the weak fairness of DoConvertLineEndsLoop, with what
\* enables the action and what its step does written out.
SpecConvertFair ==
    /\ SpecConvert
    /\ ([]<>~LoopContinues \/ []<><<LoopIterates>>_vars)
    /\ WF_vars(DoConvertLineEndsReturn)

\* Typing into a longer document, with the save point and the runs of typed
\* characters observed.
NextTyping ==
    \/ DoTypeCharacter(ObsSaved \cup ObsTyped)
    \/ DoSetSavePoint(Quiet, ObsSaved \cup ObsTyped)
    \/ DoUndoTyped(ObsSaved \cup ObsTyped)
    \/ DoRedoTyped(ObsSaved \cup ObsTyped)

SpecTyping == Init /\ [][NextTyping]_vars

\* ------------------------------------------------------------- properties
\* C1: after SetSavePoint, whatever edits, undos, redos and undo groups follow,
\* whenever IsSavePoint() is true between two calls the text is the text that the
\* document had when SetSavePoint was called.
SavePointHasSavedText ==
    (saved.set /\ IsSavePoint(Doc)) => substance = saved.text

\* The save point is reached again, by Undo, after edits moved away from it.
SavePointReachedAgain ==
    /\ saved.set /\ IsSavePoint(Doc) /\ ~saved.onlyEdits
    /\ CanRedo(Doc) /\ Len(saved.text) > 0

\* C9: once an edit is recorded while currentAction < savePoint, IsSavePoint() is
\* false in every state that edits, Undo and Redo reach, until SetSavePoint is called.
LostSavePointStaysLost ==
    saved.lost => ~IsSavePoint(Doc)

\* The save point was lost and everything has been undone since.
LostSavePointAllUndone ==
    saved.lost /\ ~CanUndo(Doc) /\ CanRedo(Doc)

\* Calling Undo() again and again on d comes to a state where IsSavePoint() is true
\* and the text is the saved text, before CanUndo() is false.
RECURSIVE UndoReachesSavePoint(_)
UndoReachesSavePoint(d) ==
    \/ IsSavePoint(d) /\ d.substance = saved.text
    \/ CanUndo(d) /\ UndoReachesSavePoint(Undo(d))

\* C10 as stated: if SetSavePoint is called, at any depth of undo groups, and only
\* new edits are recorded afterwards, repeated Undo() reaches the save point with the
\* saved text before CanUndo() becomes false.
UndoReturnsToSavePointAtAnyDepth ==
    (saved.set /\ saved.onlyEdits) => UndoReachesSavePoint(Doc)

\* C10: if SetSavePoint is called while no undo group is open and only new edits are
\* recorded afterwards, repeated Undo() reaches the save point with the saved text
\* before CanUndo() becomes false.
UndoReturnsToSavePoint ==
    (saved.set /\ saved.onlyEdits /\ ~saved.grouped) => UndoReachesSavePoint(Doc)

\* Edits were recorded after a save point that was set outside a group and after
\* earlier edits: the document is not at the save point now, and there is more to
\* undo below the save point.
EditsAfterSavePoint ==
    /\ saved.set /\ saved.onlyEdits /\ ~saved.grouped
    /\ ~IsSavePoint(Doc) /\ savePoint > 0 /\ currentAction > savePoint

\* TRUE when the documents a and b have the same text and the same line structure.
SameTextAndLines(a, b) ==
    /\ a.substance = b.substance
    /\ LinesTotal(a) = LinesTotal(b)
    /\ \A i \in 0..LinesTotal(a) : LineStart(a, i) = LineStart(b, i)

\* C2: in every state where CanUndo() is true, Undo() followed at once by Redo()
\* leaves the text bytes, LinesTotal() and every LineStart(i) as they were.
UndoThenRedoRestores ==
    CanUndo(Doc) =>
        \A g \in Chars : SameTextAndLines(Redo(Undo(Cur("none", g))), Doc)

\* The text deletions a single Undo() notifies, in order.
UndoDeletions(g) ==
    SelectSeq(Undo(Cur("none", g)).notes, LAMBDA m : m.kind = "DELETETEXT")

\* A single Undo() removes the typed run: its first typed.n steps delete the typed
\* characters, last one first, and leave the text without them.
UndoRemovesTypedRun(g) ==
    /\ Len(UndoDeletions(g)) >= typed.n
    /\ \A k \in 1..typed.n :
        /\ UndoDeletions(g)[k].position = typed.at + typed.n - k
        /\ UndoDeletions(g)[k].length = 1
    /\ UndoDeletions(g)[typed.n].doc = DeleteRange(substance, typed.at, typed.n)

\* C3 as stated: after N >= 1 successive InsertString calls of one character, each
\* just after the one before, with no undo group open and no SetSavePoint or
\* TentativeStart in between, one Undo() removes all N characters.
TypedRunUndoneAtOnceAlways ==
    typed.n >= 1 => \A g \in Chars : UndoRemovesTypedRun(g)

\* C3: the same when tentative mode is not active during the calls.
TypedRunUndoneAtOnce ==
    (typed.n >= 1 /\ ~TentativeActive(Doc)) => \A g \in Chars : UndoRemovesTypedRun(g)

\* Three characters were typed in a row outside tentative mode, and undo is possible.
TypedThreeInARow ==
    typed.n = 3 /\ ~TentativeActive(Doc) /\ CanUndo(Doc)

\* The calls a watcher makes that would change the text.
NestedMutators == {"InsertString", "DeleteChars", "Undo", "Redo"}

\* The call that left r with a watcher calling back did what the same call did alone,
\* leaving r0, and every callback was refused.
NestedRefused(r, r0) ==
    /\ Core(r) = Core(r0)
    /\ r.ret = r0.ret
    /\ \A i \in 1..Len(r.nested) :
        /\ ~r.nested[i].changed
        /\ r.nested[i].call = "InsertString" => r.nested[i].ret = 0
        /\ r.nested[i].call = "DeleteChars" => r.nested[i].ret = FALSE
        /\ r.nested[i].call \in {"Undo", "Redo"} => r.nested[i].ret = -1

TextChangeKinds == {"BEFOREINSERT", "INSERTTEXT", "BEFOREDELETE", "DELETETEXT"}

\* The call that left r and should return ret was refused because the document is
\* read-only: the watcher was told of the attempt and of nothing else, and the
\* document is as it was.
ReadOnlyRefused(r, ret) ==
    /\ r.ret = ret
    /\ \E i \in 1..Len(r.notes) : r.notes[i].kind = "MODIFYATTEMPT"
    /\ \A i \in 1..Len(r.notes) : r.notes[i].kind \notin TextChangeKinds
    /\ Core(r) = Core(Doc)

\* InsertString and DeleteChars are refused on a read-only document whatever the
\* watchers in W do.
ReadOnlyRefusesFor(W) ==
    readOnly =>
        \A w \in W :
            /\ \A position \in 0..Len(substance), s \in InsertTexts :
                ReadOnlyRefused(InsertString(Watched(w), position, s), 0)
            /\ \A pos \in 0..(Len(substance) - 1) : \A len \in 1..(Len(substance) - pos) :
                ReadOnlyRefused(DeleteChars(Watched(w), pos, len), FALSE)

\* C5 as stated: when the document is read-only at the time of the call, InsertString
\* returns 0 and DeleteChars returns false, the watchers receive MODIFYATTEMPT and no
\* BEFOREINSERT, INSERTTEXT, BEFOREDELETE or DELETETEXT, and the text, the lines and
\* the undo history are unchanged.
ReadOnlyRefusesAlways == ReadOnlyRefusesFor(Watchers)

\* C5: the same when no watcher clears the read-only flag while it is told of the
\* attempt.
ReadOnlyRefuses == ReadOnlyRefusesFor(Watchers \ {"SetReadOnly"})

\* The document is read-only, has text that could be deleted and edits that could be
\* undone.
ReadOnlyWithText == readOnly /\ Len(substance) >= 2 /\ CanUndo(Doc)

\* The notification before the change that the notification kind tells of.
BeforeOf(kind) == IF kind = "INSERTTEXT" THEN "BEFOREINSERT" ELSE "BEFOREDELETE"

\* The notifications of the call that left r come in pairs: the one before notes[i],
\* skipping those that tell of no text change, is its BEFORE notification with the
\* same position and length.
RECURSIVE PairedBefore(_, _, _)
PairedBefore(notes, i, j) ==
    IF j < 1 THEN FALSE
    ELSE IF notes[j].kind \in TextChangeKinds
        THEN /\ notes[j].kind = BeforeOf(notes[i].kind)
             /\ notes[j].position = notes[i].position
             /\ notes[j].length = notes[i].length
        ELSE PairedBefore(notes, i, j - 1)

\* The notifications of the call that left r, made in the current state, are paired,
\* and the text differs from one notification to the next only after a BEFORE one.
NotesPaired(r) ==
    /\ \A i \in 1..Len(r.notes) :
        r.notes[i].kind \in {"INSERTTEXT", "DELETETEXT"} => PairedBefore(r.notes, i, i - 1)
    /\ \A i \in 1..(Len(r.notes) - 1) :
        r.notes[i].doc # r.notes[i + 1].doc
            => r.notes[i].kind \in {"BEFOREINSERT", "BEFOREDELETE"}
    /\ IF r.notes = <<>> THEN r.substance = substance
       ELSE /\ r.notes[1].doc = substance
            /\ r.notes[Len(r.notes)].doc = r.substance
            /\ r.notes[Len(r.notes)].kind \notin {"BEFOREINSERT", "BEFOREDELETE"}

\* C6: every INSERTTEXT (DELETETEXT) notification of InsertString, DeleteChars and of
\* every step of Undo and Redo comes after a BEFOREINSERT (BEFOREDELETE) notification
\* with the same position and length, with no other text-change notification between
\* the two, and the buffer is modified only between the two.
TextChangesArePaired ==
    \A w \in Watchers :
        /\ \A position \in 0..Len(substance), s \in InsertTexts :
            NotesPaired(InsertString(Watched(w), position, s))
        /\ \A pos \in 0..(Len(substance) - 1) : \A len \in 1..(Len(substance) - pos) :
            NotesPaired(DeleteChars(Watched(w), pos, len))
        /\ \A g \in Chars :
            /\ NotesPaired(Undo(Cur(w, g)))
            /\ NotesPaired(Redo(Cur(w, g)))

\* An Undo() of at least two steps is about to be called: it sends two pairs of
\* notifications.
UndoOfTwoSteps ==
    \E i \in 1..Len(Undo(Doc).notes) :
        /\ i >= 4
        /\ Undo(Doc).notes[i].kind \in {"INSERTTEXT", "DELETETEXT"}

\* The call that left r and returned ret recorded an edit, after which undo is
\* possible and redo is not.
EditLeavesUndoOnly(r, done) ==
    (done /\ r.collectingUndo) => (CanUndo(r) /\ ~CanRedo(r))

\* C7: after every successful InsertString or DeleteChars, with undo collection on
\* and the document not read-only, CanUndo() is true and CanRedo() is false.
EditEnablesUndoOnly ==
    ~readOnly =>
        /\ \A position \in 0..Len(substance), s \in InsertTexts :
            \E r \in {InsertString(Doc, position, s)} : EditLeavesUndoOnly(r, r.ret > 0)
        /\ \A pos \in 0..(Len(substance) - 1) : \A len \in 1..(Len(substance) - pos) :
            \E r \in {DeleteChars(Doc, pos, len)} : EditLeavesUndoOnly(r, r.ret = TRUE)

\* An edit is about to succeed in a state where redo is possible.
EditWhereRedoPossible ==
    /\ ~readOnly /\ CanRedo(Doc) /\ Len(substance) >= 1
    /\ DeleteChars(Doc, 0, 1).ret = TRUE

\* C8: Begin/EndUndoAction nest and an inner EndUndoAction does not close the group:
\* when the outermost group is closed, one Undo() reverts all the edits made since
\* the outermost BeginUndoAction and none made before it, and the first edit after
\* the outermost EndUndoAction starts a new undo operation, which one Undo() reverts
\* alone.
GroupIsOneOperation ==
    group.phase = "closed" =>
        \A g \in Chars :
            /\ group.edits >= 1 => Undo(Cur("none", g)).substance = group.text
            /\ \A position \in 0..Len(substance), s \in InsertTexts :
                \E r \in {InsertString(Cur("none", g), position, s)} :
                    r.ret > 0 => (r.startSequence /\ Undo(r).substance = substance)
            /\ \A pos \in 0..(Len(substance) - 1) : \A len \in 1..(Len(substance) - pos) :
                \E r \in {DeleteChars(Cur("none", g), pos, len)} :
                    r.ret = TRUE => (r.startSequence /\ Undo(r).substance = substance)

\* The outermost group was closed after two edits, one of them after a nested group
\* was closed.
NestedGroupClosed ==
    /\ group.phase = "closed" /\ group.inner /\ group.after
    /\ group.edits >= 2 /\ substance # group.text

\* The outermost group was closed after an edit that followed a nested group, and
\* there was an edit before the group.
NestedGroupClosedAfterEdit ==
    /\ group.phase = "closed" /\ group.inner /\ group.after
    /\ group.edits >= 1 /\ group.at >= 1

\* TentativeUndo, called in the current state, restores the text of TentativeStart,
\* leaves tentative mode and leaves nothing to redo.
TentativeUndoRollsBack ==
    \A g \in Chars :
        \E r \in {TentativeUndo(Cur("none", g))} :
            /\ r.substance = composing.text
            /\ ~TentativeActive(r)
            /\ ~CanRedo(r)

\* C11: after TentativeStart followed by any sequence of InsertString and DeleteChars
\* calls, whether or not an undo group is open, TentativeUndo restores the text to
\* its content at TentativeStart, leaves tentative mode inactive and leaves CanRedo()
\* false.
TentativeUndoRestoresText == composing.on => TentativeUndoRollsBack

\* The same with no undo group open.
TentativeUndoRestoresTextAtTopLevel ==
    (composing.on /\ undoSequenceDepth = 0) => TentativeUndoRollsBack

\* Two edits were recorded in tentative mode with no undo group open.
ComposedTwoEdits == composing.on /\ composing.edits = 2 /\ undoSequenceDepth = 0

\* The notification of the given kind that the call that left r sent tells of the
\* insertion of t at position.
InsertionNoted(r, kind, position, t) ==
    \E i \in 1..Len(r.notes) :
        /\ r.notes[i].kind = kind
        /\ r.notes[i].position = position
        /\ r.notes[i].length = Len(t)
        /\ r.notes[i].text = t
        /\ \A j \in 1..Len(r.notes) : r.notes[j].kind = kind => j = i

\* The InsertString at position, called in the current state, that left r used the
\* text t: in the buffer, in its two notifications, in the undo action it recorded
\* and in the value it returned.
InsertionUses(r, position, t) ==
    /\ r.ret = Len(t)
    /\ r.substance = InsertFromArray(substance, position, t)
    /\ InsertionNoted(r, "BEFOREINSERT", position, t)
    /\ InsertionNoted(r, "INSERTTEXT", position, t)
    /\ Slot(r, r.currentAction - 1).at = "insert"
    /\ Slot(r, r.currentAction - 1).position = position
    /\ Slot(r, r.currentAction - 1).lenData = Len(t)
    /\ SubSeq(r.scraps.stack, r.scraps.current - Len(t) + 1, r.scraps.current) = t

LeftUnchanged(r) ==
    /\ r.substance = substance
    /\ r.starts = starts
    /\ r.actions = actions
    /\ r.currentAction = currentAction
    /\ r.maxAction = maxAction
    /\ r.scraps = scraps

\* The call that left r did what the call that left c did to the text, the lines and
\* the undo history.
SameEffect(r, c) ==
    /\ r.substance = c.substance
    /\ r.starts = c.starts
    /\ r.actions = c.actions
    /\ r.currentAction = c.currentAction
    /\ r.maxAction = c.maxAction

\* C13: InsertString called with a position outside [0, Length()] fails no assertion
\* and either inserts at a position inside the document or leaves the text, the
\* lines and the undo history unchanged.
OutsideInsertIsClampedOrNothing ==
    \A position \in {-1, Len(substance) + 1}, s \in InsertTexts :
        \E r \in {InsertString(Doc, position, s)} :
            /\ ~r.broken
            /\ \/ LeftUnchanged(r)
               \/ \E inside \in 0..Len(substance) :
                    SameEffect(r, InsertString(Doc, inside, s))

\* The style bytes st after the text changes that the notifications notes[i..] tell
\* of: the bytes of a deletion go, those of an insertion come with style 0.
RECURSIVE Restyled(_, _, _)
Restyled(st, notes, i) ==
    IF i > Len(notes) THEN st
    ELSE IF notes[i].kind = "INSERTTEXT"
        THEN Restyled(InsertFromArray(st, notes[i].position,
                                      [k \in 1..notes[i].length |-> 0]), notes, i + 1)
    ELSE IF notes[i].kind = "DELETETEXT"
        THEN Restyled(DeleteRange(st, notes[i].position, notes[i].length), notes, i + 1)
    ELSE Restyled(st, notes, i + 1)

\* The styling call that left r, made in the current state, changed nothing but style
\* bytes and the styling position, and an Undo() after it does what it does without
\* it and leaves the style bytes of the text it does not touch.
OnlyStyled(r, g) ==
    /\ r.ret = TRUE
    /\ [Core(r) EXCEPT !.style = style, !.endStyled = endStyled] = Core(Doc)
    /\ CanUndo(r) = CanUndo(Doc) /\ CanRedo(r) = CanRedo(Doc)
    /\ IsSavePoint(r) = IsSavePoint(Doc)
    /\ StartUndo(r).steps = StartUndo(Doc).steps
    /\ \E u \in {Undo([r EXCEPT !.notes = <<>>, !.wild = g])} :
        /\ SameEffect(u, Undo(Cur("none", g)))
        /\ u.style = Restyled(r.style, u.notes, 1)

\* C14: SetStyleFor and SetStyles change only style bytes and the styling position:
\* not the text, the lines, CanUndo(), CanRedo(), IsSavePoint() or the number of
\* steps of a later Undo(), and no Undo() reverts a style change.
StylingChangesOnlyStyle ==
    \A g \in Chars :
        /\ \A length \in 0..(Len(substance) - endStyled), styleValue \in StyleValues :
            OnlyStyled(SetStyleFor(Doc, length, styleValue), g)
        /\ \A styles \in StyleArrays :
            endStyled + Len(styles) <= Len(substance) => OnlyStyled(SetStyles(Doc, styles), g)

\* SetStyles is about to change two style bytes of a text whose last edit can be
\* undone, away from the save point.
StylingBeforeUndo ==
    /\ endStyled = 0 /\ Len(substance) >= 2 /\ style[1] = 0 /\ style[2] = 0
    /\ CanUndo(Doc) /\ ~IsSavePoint(Doc)
    /\ SetStyles(Doc, <<1, 0>>).style[1] = 1

\* The offset p of the text is just after a line terminator: a line feed, or a
\* carriage return that no line feed follows.
AfterTerminator(p) ==
    /\ p >= 1 /\ p <= Len(substance)
    /\ \/ substance[p] = "\n"
       \/ substance[p] = "\r" /\ ~(p < Len(substance) /\ substance[p + 1] = "\n")

\* C15: after any sequence of InsertString, DeleteChars, Undo and Redo, LineStart(0)
\* is 0, LineStart(LinesTotal()) is Length(), LineStart does not decrease with the
\* line, every line from 1 on starts just after a line terminator, a CR LF pair
\* counting as one, and LinesTotal() is one plus the number of terminators.
LineStartsFollowTerminators ==
    /\ LineStart(Doc, 0) = 0
    /\ LineStart(Doc, LinesTotal(Doc)) = Length(Doc)
    /\ \A i \in 0..(LinesTotal(Doc) - 1) : LineStart(Doc, i) <= LineStart(Doc, i + 1)
    /\ \A i \in 1..(LinesTotal(Doc) - 1) : AfterTerminator(LineStart(Doc, i))
    /\ LinesTotal(Doc) = 1 + Cardinality({p \in 1..Len(substance) : AfterTerminator(p)})

\* A byte was put between a carriage return and its line feed and the insertion was
\* undone and redone: the text has three lines.
PairSplitByEdit ==
    /\ substance = <<"\r", "a", "\n">>
    /\ LinesTotal(Doc) = 3
    /\ Slot(Doc, 1).lenData = 2

\* C16: after any sequence of FillRange, SetValueAt, InsertSpace, DeleteRange and
\* DeleteAll calls with arguments in range on a RunStyles, no two adjacent runs hold
\* the same value.
AdjacentRunsDiffer ==
    \A run \in 1..(Runs(runs) - 1) : StyleOfRun(runs, run) # StyleOfRun(runs, run - 1)

\* C17: after any such sequence no run has zero length, except the single empty run
\* of a RunStyles whose Length() is 0.
NoEmptyRun ==
    \/ RunsLength(runs) = 0 /\ Runs(runs) = 1
    \/ \A run \in 0..(Runs(runs) - 1) :
        PositionFromPartition(runs.starts, run) < PositionFromPartition(runs.starts, run + 1)

\* Three runs or more, the first and the third with the same value: when the one
\* between them goes they must be merged.
RunsAroundAnother ==
    /\ Runs(runs) >= 3
    /\ StyleOfRun(runs, 0) = StyleOfRun(runs, 2)
    /\ RunsLength(runs) = MaxRunsLength

\* C18: for pos >= 0, len > 0 and pos + len <= Length(), after FillRange(pos, v, len)
\* ValueAt(p) is v for every p of the range, ValueAt(q) is unchanged for every q
\* outside it, Length() is unchanged, and the call returns true if and only if some
\* position of the range held another value before.
FillRangeFills ==
    \A position \in 0..(RunsLength(runs) - 1), value \in RunValues :
        \A fillLength \in 1..(RunsLength(runs) - position) :
            \E r \in {FillRange(runs, position, value, fillLength)} :
                /\ \A p \in position..(position + fillLength - 1) :
                    RunValueAt(r.rs, p) = value
                /\ \A q \in 0..(RunsLength(runs) - 1) :
                    (q < position \/ q >= position + fillLength)
                        => RunValueAt(r.rs, q) = RunValueAt(runs, q)
                /\ RunsLength(r.rs) = RunsLength(runs)
                /\ r.ret = (\E p \in position..(position + fillLength - 1) :
                                RunValueAt(runs, p) # value)

\* A FillRange is about to cover the end of one run, the whole of the next and the
\* start of a third.
FillOverThreeRuns ==
    /\ Runs(runs) = 3 /\ RunsLength(runs) = 4
    /\ PositionFromPartition(runs.starts, 1) = 2
    /\ PositionFromPartition(runs.starts, 2) = 3
    /\ FillRange(runs, 1, 2, 3).ret

\* C19: after any calls of InsertLine(s), DeleteLine(s), SetVisible, SetExpanded,
\* SetHeight and ShowAll with lines inside the ContractionState, DisplayFromDoc(0) is
\* 0, each document line n takes GetHeight(n) display lines when it is visible and
\* none when it is hidden, and LinesDisplayed() is DisplayFromDoc(LinesInDoc()).
DisplayLinesAreSums ==
    /\ DisplayFromDoc(cs, 0) = 0
    /\ \A n \in 0..(LinesInDoc(cs) - 1) :
        DisplayFromDoc(cs, n + 1) - DisplayFromDoc(cs, n)
            = (IF GetVisible(cs, n) THEN GetHeight(cs, n) ELSE 0)
    /\ LinesDisplayed(cs) = DisplayFromDoc(cs, LinesInDoc(cs))

\* A hidden line between a wrapped line and a line of one display line.
HiddenBetweenTwo ==
    /\ LinesInDoc(cs) = 3
    /\ GetVisible(cs, 0) /\ GetHeight(cs, 0) = 2
    /\ ~GetVisible(cs, 1) /\ GetHeight(cs, 1) = 2
    /\ GetVisible(cs, 2) /\ GetHeight(cs, 2) = 1
    /\ LinesDisplayed(cs) = 3

\* C20: for every display line d from 0 to LinesDisplayed() - 1, DocFromDisplay(d)
\* is a visible document line n with DisplayFromDoc(n) <= d < DisplayFromDoc(n + 1),
\* whichever lines are hidden.
DocFromDisplayIsVisible ==
    \A d \in 0..(LinesDisplayed(cs) - 1) :
        /\ GetVisible(cs, DocFromDisplay(cs, d))
        /\ DisplayFromDoc(cs, DocFromDisplay(cs, d)) <= d
        /\ d < DisplayFromDoc(cs, DocFromDisplay(cs, d) + 1)

\* C21: ValueAt outside the vector returns 0, and Insert, InsertValue,
\* InsertFromArray, SetValueAt, Delete and DeleteRange called with a position or a
\* range outside the vector leave Length() and every element as they were; they do
\* not fail where PLATFORM_ASSERT does nothing (a build with NDEBUG).
SameVector(w) ==
    /\ SvLength(w) = SvLength(sv)
    /\ SvElements(w) = SvElements(sv)

\* Every call with a position or a range outside the vector v satisfies Refused.
OutsideCalls(v, Refused(_)) ==
    /\ \A position \in {-2, -1, SvLength(v), SvLength(v) + 1} : SvValueAt(v, position) = 0
    /\ \A position \in {-2, -1, SvLength(v) + 1, SvLength(v) + 2}, x \in Elements :
        /\ Refused(SvInsert(v, position, x))
        /\ \A insertLength \in 1..2 : Refused(SvInsertValue(v, position, insertLength, x))
        /\ \A s \in ElementArrays : Refused(SvInsertFromArray(v, position, s, 0, Len(s)))
    /\ \A position \in {-2, -1, SvLength(v), SvLength(v) + 1}, x \in Elements :
        /\ Refused(SvSetValueAt(v, position, x))
        /\ Refused(SvDelete(v, position))
    /\ \A position \in (-2)..(SvLength(v) + 2), deleteLength \in 0..(SvLength(v) + 2) :
        (position < 0 \/ position + deleteLength > SvLength(v))
            => Refused(SvDeleteRange(v, position, deleteLength))

RefusedSilentlyInRelease(w) == SameVector(w) /\ (w.build = "NDEBUG" => ~w.fault)

RefusedSilently(w) == SameVector(w) /\ ~w.fault

CharacterWidth(c, p) ==
    IF c.dbcsCodePage = 0 THEN 1
    ELSE IF c.dbcsCodePage = SC_CP_UTF8
        THEN IF UTF8Classify(CharBytes(c, p, 4, Length(c)), Length(c) - p).invalid THEN 1
             ELSE UTF8Classify(CharBytes(c, p, 4, Length(c)), Length(c) - p).width
    ELSE IF LeadAt(c, p) /\ p + 1 < Length(c) THEN 2
    ELSE 1

\* The positions between the characters of the text c, from position p on.
RECURSIVE BoundariesFrom(_, _)
BoundariesFrom(c, p) ==
    IF p >= Length(c) THEN {Length(c)}
    ELSE {p} \cup BoundariesFrom(c, p + CharacterWidth(c, p))

Boundaries(c) == BoundariesFrom(c, 0)

\* The last character boundary at or before p, and the first one at or after p.
BoundaryBefore(c, p) == CHOOSE b \in Boundaries(c) :
    b <= p /\ \A b2 \in Boundaries(c) : b2 <= p => b2 <= b

BoundaryAfter(c, p) == CHOOSE b \in Boundaries(c) :
    b >= p /\ \A b2 \in Boundaries(c) : b2 >= p => b2 >= b

\* The searches that return: every search but a case insensitive one of a document
\* that has no case folder.
Returns(search, caseSensitive) ==
    Len(search) = 0 \/ caseSensitive \/ HasCaseFolder(coding)

\* The match r is inside the range between minPos and maxPos, its ends moved to the
\* character boundaries around it.
InsideRange(c, minPos, maxPos, r) ==
    /\ BoundaryBefore(c, IF minPos <= maxPos THEN minPos ELSE maxPos) <= r.ret
    /\ r.ret + r.length <= BoundaryAfter(c, IF minPos <= maxPos THEN maxPos ELSE minPos)

WholeCharacters(n) ==
    \A p \in Boundaries(n) \ {Length(n)} :
        IF n.dbcsCodePage = SC_CP_UTF8
            THEN ~UTF8Classify(CharBytes(n, p, 4, Length(n)), Length(n) - p).invalid
            ELSE LeadAt(n, p) => p + 1 < Length(n)

Needle(c, search) == [substance |-> search, dbcsCodePage |-> c.dbcsCodePage]

\* The needle occurs at position p of the text c: p is between two characters and
\* the bytes from p are those of the needle, or fold to what the needle folds to.
OccursAt(c, p, search, caseSensitive) ==
    /\ p \in Boundaries(c)
    /\ p + Len(search) <= Length(c)
    /\ \A i \in 1..Len(search) :
        IF caseSensitive THEN CharAt(c, p + i - 1) = search[i]
        ELSE FoldByte(CharAt(c, p + i - 1)) = FoldByte(search[i])

\* The occurrences inside the range, whose ends are moved to character boundaries in
\* the direction of the search.
Occurrences(c, minPos, maxPos, search, caseSensitive) ==
    IF minPos <= maxPos
        THEN {p \in 0..Length(c) :
                /\ OccursAt(c, p, search, caseSensitive)
                /\ BoundaryAfter(c, minPos) <= p
                /\ p + Len(search) <= BoundaryAfter(c, maxPos)}
        ELSE {p \in 0..Length(c) :
                /\ OccursAt(c, p, search, caseSensitive)
                /\ BoundaryBefore(c, maxPos) <= p
                /\ p + Len(search) <= BoundaryBefore(c, minPos)}

\* r is the first of the occurrences o in the direction of the search, or -1 when
\* there is none.
FirstOf(minPos, maxPos, o, r) ==
    IF o = {} THEN r.ret = -1
    ELSE /\ r.ret \in o
         /\ \A q \in o : IF minPos <= maxPos THEN r.ret <= q ELSE r.ret >= q

\* C23: for a needle that occurs more than once or not at all, a forward FindText
\* returns the lowest occurrence inside the range, a backward FindText the highest,
\* and -1 is returned exactly when there is no occurrence inside the range.
FindsFirstOccurrence ==
    \A minPos \in 0..Len(substance), maxPos \in 0..Len(substance),
       search \in Needles \ {<<>>}, caseSensitive \in BOOLEAN :
        (Returns(search, caseSensitive) /\ WholeCharacters(Needle(Text, search))) =>
            FirstOf(minPos, maxPos,
                    Occurrences(Text, minPos, maxPos, search, caseSensitive),
                    FindText(Text, minPos, maxPos, search, caseSensitive))

\* Position p of the text c is inside a multi-byte character: a valid sequence of
\* UTF-8, or a lead byte of code page 932 with a trail byte of the code page (0x40 to
\* 0x7E, 0x80 to 0xFC).
InsideCharacter(c, p) ==
    /\ p \in 0..Length(c)
    /\ p \notin Boundaries(c)
    /\ c.dbcsCodePage # SC_CP_UTF8 =>
        /\ ByteOf(CharAt(c, BoundaryBefore(c, p) + 1)) >= 64
        /\ ByteOf(CharAt(c, BoundaryBefore(c, p) + 1)) <= 252
        /\ ByteOf(CharAt(c, BoundaryBefore(c, p) + 1)) # 127

\* C24: in a document of a DBCS code page or of UTF-8, a literal FindText never
\* returns a position inside a multi-byte character: a needle byte that equals the
\* trail byte of a character is not matched there.
NeverInsideCharacter ==
    \A minPos \in 0..Len(substance), maxPos \in 0..Len(substance),
       search \in Needles \ {<<>>}, caseSensitive \in BOOLEAN :
        Returns(search, caseSensitive) =>
            ~InsideCharacter(Text, FindText(Text, minPos, maxPos, search, caseSensitive).ret)

\* The byte value b is a trail byte of code page 932: 0x40 to 0x7E or 0x80 to 0xFC.
TrailByteOf932(b) == b >= 64 /\ b <= 252 /\ b # 127

\* C25: in a DBCS document, GetCharacterAndWidth at a lead byte that is followed by
\* an invalid trail byte gives the lead byte alone with width 1; it gives width 2 only
\* when a valid trail byte follows the lead byte.
LeadByteAloneBeforeInvalidTrail ==
    \A position \in 0..(Len(substance) - 2) :
        (coding.dbcsCodePage = 932 /\ LeadAt(Text, position)) =>
            IF TrailByteOf932(ByteOf(CharAt(Text, position + 1)))
                THEN GetCharacterAndWidth(Text, position).width = 2
                ELSE GetCharacterAndWidth(Text, position)
                        = [character |-> ByteOf(CharAt(Text, position)), width |-> 1]

\* The INSERTTEXT and DELETETEXT notifications among the notifications notes.
TextChanges(notes) ==
    SelectSeq(notes, LAMBDA m : m.kind \in {"INSERTTEXT", "DELETETEXT"})

\* Every notification of notes carries the MULTISTEPUNDOREDO bit.
AllMultiStep(notes) ==
    \A i \in 1..Len(notes) : "MULTISTEPUNDOREDO" \in notes[i].flags

\* The text changes that Redo() notifies after the Undo() that left the document u.
RedoChanges(u) ==
    TextChanges(SubSeq(Redo(u).notes, Len(u.notes) + 1, Len(Redo(u).notes)))

\* Undo() of the present document, and Redo() after it, notify text changes that all
\* carry MULTISTEPUNDOREDO.
UndoRedoMultiStep(g) ==
    /\ Len(TextChanges(Undo(Cur("none", g)).notes)) >= 1
    /\ AllMultiStep(TextChanges(Undo(Cur("none", g)).notes))
    /\ Len(RedoChanges(Undo(Cur("none", g)))) >= 1
    /\ AllMultiStep(RedoChanges(Undo(Cur("none", g))))

\* C26 as stated: when the edits recorded between BeginUndoAction and EndUndoAction,
\* one or more, are undone or redone, every INSERTTEXT or DELETETEXT notification of
\* that Undo() or Redo() carries the MULTISTEPUNDOREDO bit.
GroupNotifiesMultiStepAlways ==
    (group.phase = "closed" /\ group.edits >= 1) => \A g \in Chars : UndoRedoMultiStep(g)

\* C26: the same for a group in which two or more edits were recorded.
GroupNotifiesMultiStep ==
    (group.phase = "closed" /\ group.edits >= 2) => \A g \in Chars : UndoRedoMultiStep(g)

\* A group of two or more edits has just been closed and can be undone.
GroupOfEditsClosed ==
    group.phase = "closed" /\ group.edits >= 2 /\ CanUndo(Doc)

\* Three characters were typed one after the other on an empty history, with no undo
\* group open.
ThreeTypedOnEmptyHistory == typed.n = 3 /\ typed.from = 0

\* C28 as stated: on an empty history, after three InsertString calls of one
\* character at consecutive positions, with no undo group, CanUndo() is true and
\* StartUndo() returns 1.
TypedRunIsOneStep ==
    ThreeTypedOnEmptyHistory => (CanUndo(Doc) /\ StartUndo(Doc).steps = 1)

\* C28: the same with StartUndo() returning 3, one step for each character; the
\* three steps are those of one Undo(), which removes the three characters.
TypedRunIsOneOperation ==
    ThreeTypedOnEmptyHistory =>
        /\ CanUndo(Doc)
        /\ StartUndo(Doc).steps = 3
        /\ \A g \in Chars : UndoRemovesTypedRun(g)

\* ------------------------------------------- properties of typing and saving
\* The document after one Undo() and after two, g being the byte that a read outside
\* the scrap stack's string yields.
UndoOnce(g) == Undo(Cur("none", g))
UndoTwice(g) == Undo(Returned(UndoOnce(g)))

\* SetSavePoint was called on a text of three characters, and since then two
\* characters have been typed at positions 3 and 4 and nothing else has been called.
SavedThenTwoTyped ==
    /\ saved.set /\ saved.onlyEdits /\ Len(saved.text) = 3
    /\ typed.n = 2 /\ typed.at = 3
    /\ Len(substance) = 5

\* d is at the save point with the saved text, and there is something to redo.
BackAtSavePoint(d) ==
    /\ Length(d) = 3
    /\ d.substance = saved.text
    /\ IsSavePoint(d)
    /\ CanRedo(d)

\* C27 as stated: after three characters are inserted one at a time, SetSavePoint is
\* called and two more characters are inserted at positions 3 and 4, exactly two
\* Undo() calls leave Length() = 3, IsSavePoint() true and CanRedo() true.
TwoUndosReachSavePoint ==
    SavedThenTwoTyped => \A g \in Chars : BackAtSavePoint(UndoTwice(g))

\* C27: in that scenario one Undo() call leaves Length() = 3, IsSavePoint() true and
\* CanRedo() true; a second Undo() goes below the save point: it leaves fewer than
\* three characters and IsSavePoint() false.
OneUndoReachesSavePoint ==
    SavedThenTwoTyped =>
        \A g \in Chars :
            /\ BackAtSavePoint(UndoOnce(g))
            /\ \A u \in {UndoTwice(g)} :
                /\ Length(u) < 3
                /\ ~IsSavePoint(u)
                /\ CanRedo(u)

\* ------------------------------------------------- properties of line ends
\* A line feed is at position p of the text.
LineFeedAt(p) == p \in 0..(Len(substance) - 1) /\ substance[p + 1] = "\n"

\* LinesTotal() after InsertString(p, "\r", 1).
LinesWithCRAt(p) == LinesTotal(InsertString(Doc, p, <<"\r">>))

\* C29 as stated: inserting a single carriage return just before a line feed of the
\* text decreases LinesTotal() by exactly 1.
CRBeforeLFRemovesLine ==
    \A p \in 0..Len(substance) :
        LineFeedAt(p) => LinesWithCRAt(p) = LinesTotal(Doc) - 1

\* C29: inserting a single carriage return just before a line feed of the text never
\* decreases LinesTotal().  It leaves LinesTotal() unchanged, the line feed's
\* terminator becoming a CR LF pair, unless a carriage return was already before the
\* line feed: then the old pair is split and LinesTotal() increases by 1.
CRBeforeLFKeepsLines ==
    \A p \in 0..Len(substance) :
        LineFeedAt(p) =>
            /\ InsertString(Doc, p, <<"\r">>).ret = 1
            /\ LinesWithCRAt(p) =
                    LinesTotal(Doc) + (IF p > 0 /\ substance[p] = "\r" THEN 1 ELSE 0)

\* A carriage return has just been inserted before the line feed that was the whole
\* text: the text still has two lines.
CRInsertedBeforeLF ==
    /\ substance = <<"\r", "\n">>
    /\ LinesTotal(Doc) = 2
    /\ currentAction = 4
    /\ Slot(Doc, 1).at = "insert" /\ Slot(Doc, 1).lenData = 1
    /\ Slot(Doc, 3).at = "insert" /\ Slot(Doc, 3).position = 0
    /\ Slot(Doc, 3).lenData = 1

\* C30: every call of ConvertLineEnds returns, whatever the text, the eol mode, the
\* read-only flag, and whether a modification is in progress.
ConvertLineEndsTerminates == (conv.pc = "loop") ~> (conv.pc # "loop")

\* ---------------------------------------------------- properties of the history
\* The record that a new action is compared with: the one before currentAction.
PreviousRecord == Slot(Doc, currentAction - 1)

\* The call that left the document r recorded an action and joined it to the current
\* undo operation: the action was written over the start record at currentAction.
Joined(r) == r.currentAction = currentAction + 1 /\ r.maxAction = r.currentAction

\* The action of kind at, at position, of lengthData bytes, is of the kind of the
\* previous record, or that record is a start, the record may coalesce, and the
\* action is next to it: an insertion at its end, a removal just before its position
\* or at it.
NextToPrevious(at, position, lengthData) ==
    /\ currentAction >= 1
    /\ PreviousRecord.mayCoalesce
    /\ PreviousRecord.at \in {at, "start"}
    /\ IF at = "insert"
          THEN position = PreviousRecord.position + PreviousRecord.lenData
          ELSE position + lengthData = PreviousRecord.position
               \/ position = PreviousRecord.position

HistoryEndsWithStart ==
    /\ Slot(Doc, 0).at = "start"
    /\ 0 <= currentAction
    /\ currentAction <= maxAction
    /\ currentAction = maxAction => Slot(Doc, currentAction).at = "start"


\* ------------------------------------------------------------ properties of the last step
\* The notifications of the call that left r which carry LASTSTEPINUNDOREDO.
LastStepNotes(r) ==
    {i \in 1..Len(r.notes) : "LASTSTEPINUNDOREDO" \in r.notes[i].flags}

\* The modification notifications of the call that left r.
ModificationNotes(r) ==
    {i \in 1..Len(r.notes) : r.notes[i].kind \notin {"SAVEPOINT", "MODIFYATTEMPT"}}

\* The number of steps the call that left r performed: each step begins with one
\* BEFOREINSERT, BEFOREDELETE or CONTAINER notification.
StepsPerformed(r) ==
    Cardinality({i \in 1..Len(r.notes) :
                    r.notes[i].kind \in {"BEFOREINSERT", "BEFOREDELETE", "CONTAINER"}})

\* The call that left r, when it performed k >= 1 steps, flagged the second
\* notification of its k-th step and no other: it is the 2k-th modification
\* notification of the call, and the last one.
LastStepFlaggedOnce(r) ==
    StepsPerformed(r) >= 1 =>
        /\ Cardinality(LastStepNotes(r)) = 1
        /\ Cardinality(ModificationNotes(r)) = 2 * StepsPerformed(r)
        /\ \A i \in LastStepNotes(r) :
            /\ \A j \in ModificationNotes(r) : j <= i
            /\ r.notes[i].kind \in {"INSERTTEXT", "DELETETEXT", "NONE"}

\* C33: in every Undo() or Redo() call that performs k >= 1 steps, exactly one
\* notification carries LASTSTEPINUNDOREDO: the post-modification notification of the
\* k-th step, which is the last modification notification of the call.
LastStepIsFlaggedOnce ==
    \A w \in Watchers, g \in Chars :
        /\ LastStepFlaggedOnce(Undo(Cur(w, g)))
        /\ LastStepFlaggedOnce(Redo(Cur(w, g)))

\* A Redo() of two steps is about to be called: its fourth notification is the one
\* flagged as the last step.
RedoOfTwoSteps ==
    /\ StartRedo(Doc).steps = 2
    /\ StepsPerformed(Redo(Doc)) = 2
    /\ LastStepNotes(Redo(Doc)) = {4}
    /\ Len(Redo(Doc).substance) <= MaxLen


\* ------------------------------------------------------------ properties of the scraps
\* The record that GetUndoStep or GetRedoStep returned for the slot `slot` has the
\* bytes that AppendAction was given for it.
StepOwned(action, slot) ==
    action.at \in {"insert", "remove"} =>
        /\ slot + 1 <= Len(owned)
        /\ action.data = owned[slot + 1]

RECURSIVE UndoStepsOwned(_, _)
\* The next `steps` steps of undo on the document d return the bytes of their records.
UndoStepsOwned(d, steps) ==
    \/ steps <= 0
    \/ /\ StepOwned(GetUndoStep(d), d.currentAction)
       /\ UndoStepsOwned(PerformUndoStep(d), steps - 1)

RECURSIVE RedoStepsOwned(_, _)
\* The next `steps` steps of redo on the document d return the bytes of their records.
RedoStepsOwned(d, steps) ==
    \/ steps <= 0
    \/ /\ StepOwned(GetRedoStep(d), d.currentAction)
       /\ RedoStepsOwned(PerformRedoStep(d), steps - 1)

\* C34: the bytes that GetUndoStep returns when a record is undone (by Undo or by
\* TentativeUndo) and that GetRedoStep returns when it is redone are the bytes passed
\* to AppendAction for that record, after any interleaving of edits, undo, redo,
\* edits after a partial undo, TentativeCommit and DeleteUndoHistory.
StepsReturnOwnedBytes ==
    \A g \in Chars :
        /\ UndoStepsOwned(StartUndo(Cur("none", g)).d, StartUndo(Cur("none", g)).steps)
        /\ RedoStepsOwned(StartRedo(Cur("none", g)).d, StartRedo(Cur("none", g)).steps)
        /\ TentativeActive(Doc) =>
              UndoStepsOwned(TentativeSteps(Cur("none", g)).d,
                             TentativeSteps(Cur("none", g)).steps)


\* ------------------------------------------------------------ properties of the gap
\* The fields of the vector r are consistent: the gap is what the array has beyond
\* the elements, and it lies inside the elements.
GapConsistent(r) ==
    /\ r.gapLength = Len(r.body) - r.lengthBody
    /\ 0 <= r.part1Length
    /\ r.part1Length <= r.lengthBody

\* The vector r is the plain sequence e.
IsSequence(r, e) ==
    /\ ~r.fault
    /\ GapConsistent(r)
    /\ SvLength(r) = Len(e)
    /\ \A i \in 0..(Len(e) - 1) : SvValueAt(r, i) = e[i + 1]

\* Every call on the vector v with arguments inside it does what the same edit does
\* to the plain sequence e of its elements; the calls that move the gap leave e.
EditsAsSequence(v, e) ==
    /\ \A position \in 0..Len(e), x \in Elements :
        /\ IsSequence(SvInsert(v, position, x), InsertFromArray(e, position, <<x>>))
        /\ \A insertLength \in 0..2 :
            IsSequence(SvInsertValue(v, position, insertLength, x),
                       InsertFromArray(e, position, [k \in 1..insertLength |-> x]))
        /\ \A s \in ElementArrays : \A positionFrom \in 0..(Len(s) - 1) :
            IsSequence(SvInsertFromArray(v, position, s, positionFrom,
                                         Len(s) - positionFrom),
                       InsertFromArray(e, position, Drop(s, positionFrom)))
    /\ \A position \in 0..(Len(e) - 1) :
        /\ IsSequence(SvDelete(v, position), DeleteRange(e, position, 1))
        /\ \A x \in Elements :
            IsSequence(SvSetValueAt(v, position, x), [e EXCEPT ![position + 1] = x])
    /\ \A position \in 0..Len(e) : \A n \in 0..(Len(e) - position) :
        /\ IsSequence(SvDeleteRange(v, position, n), DeleteRange(e, position, n))
        /\ IsSequence(SvRangePointer(v, position, n), e)
    /\ IsSequence(SvBufferPointer(v), e)

\* C35: after any calls of Insert, InsertValue, InsertFromArray, Delete, DeleteRange
\* and SetValueAt with arguments inside the vector, with RangePointer and
\* BufferPointer moving the gap and with reallocations between them, Length() and
\* ValueAt(i) are those of a plain sequence given the same edits, gapLength is
\* size - lengthBody and 0 <= part1Length <= lengthBody.
VectorIsSequence ==
    ~sv.fault =>
        /\ GapConsistent(sv)
        /\ \A build \in Builds(sv) :
            EditsAsSequence([sv EXCEPT !.build = build], SvElements(sv))

\* Three elements in an array that was reallocated, with the gap after the first of
\* them: BufferPointer() is about to move the gap to the end.
GapInsideAfterGrowth ==
    /\ sv.lengthBody = 3 /\ sv.part1Length = 1
    /\ Len(sv.body) > 10
    /\ SvElements(sv) = <<1, 2, 2>>
    /\ SvBufferPointer(sv).part1Length = 3

\* The vector r, left by an insertion that threw, has the length and the elements of
\* the vector of the current state.
SameAfterThrow(r) ==
    /\ ~r.fault
    /\ SvLength(r) = SvLength(sv)
    /\ \A i \in 0..(SvLength(sv) - 1) : SvValueAt(r, i) = SvValueAt(sv, i)

\* C36: when the growth of the array (ReAllocate called from RoomFor) fails with an
\* allocation exception during Insert, InsertValue or InsertFromArray, Length() and
\* every element are as they were before the call.
ThrowLeavesVector ==
    ~sv.fault =>
        \A insertLength \in 1..MaxVector, build \in Builds(sv) :
            Allocates(sv, insertLength) =>
                SameAfterThrow(RoomForThrows([sv EXCEPT !.build = build], insertLength))

\* Two elements fill an array with the gap before them: an insertion is about to
\* fail for lack of memory after it moved the gap to the end.
ThrowAfterGapMoved ==
    /\ sv.lengthBody = 2 /\ sv.part1Length = 0 /\ sv.gapLength <= 1
    /\ Allocates(sv, 1)
    /\ RoomForThrows(sv, 1).part1Length = 2


\* ------------------------------------------------------------ properties of the BEFORE notifications
\* The notification that completes a BEFOREINSERT or BEFOREDELETE one.
CompletionOf(kind) == IF kind = "BEFOREINSERT" THEN "INSERTTEXT" ELSE "DELETETEXT"

\* Every BEFOREINSERT (BEFOREDELETE) notification of the call that left r has an
\* INSERTTEXT (DELETETEXT) notification for the same position and length after it,
\* and announces a change of at least one byte.
BeforesAreCompleted(r) ==
    \A i \in 1..Len(r.notes) :
        r.notes[i].kind \in {"BEFOREINSERT", "BEFOREDELETE"} =>
            /\ r.notes[i].length > 0
            /\ \E j \in (i + 1)..Len(r.notes) :
                /\ r.notes[j].kind = CompletionOf(r.notes[i].kind)
                /\ r.notes[j].position = r.notes[i].position
                /\ r.notes[j].length = r.notes[i].length

\* C37 for InsertString, DeleteChars, Undo and Redo.
EditBeforesAreCompleted ==
    \A w \in Watchers :
        /\ \A position \in 0..Len(substance), s \in InsertTexts :
            BeforesAreCompleted(InsertString(Watched(w), position, s))
        /\ \A pos \in 0..(Len(substance) - 1) : \A len \in 1..(Len(substance) - pos) :
            BeforesAreCompleted(DeleteChars(Watched(w), pos, len))
        /\ \A g \in Chars :
            /\ BeforesAreCompleted(Undo(Cur(w, g)))
            /\ BeforesAreCompleted(Redo(Cur(w, g)))

\* C37: every BEFOREINSERT or BEFOREDELETE notification sent by InsertString,
\* DeleteChars, Undo, Redo or TentativeUndo is followed, before the call returns, by
\* an INSERTTEXT or DELETETEXT notification for the same position and length, and
\* none is sent for a history record that does not change the text.
AllBeforesAreCompleted ==
    /\ EditBeforesAreCompleted
    /\ \A w \in Watchers, g \in Chars : BeforesAreCompleted(TentativeUndo(Cur(w, g)))


\* ------------------------------------------------------------ properties of the one-to-one mode
\* The ContractionStates o and f give the same answers: the numbers of lines, what
\* each line is, and the display line of each document line and back.
SameAnswers(o, f) ==
    /\ LinesInDoc(o) = LinesInDoc(f)
    /\ LinesDisplayed(o) = LinesDisplayed(f)
    /\ \A lineDoc \in 0..(LinesInDoc(o) - 1) :
        /\ GetVisible(o, lineDoc) = GetVisible(f, lineDoc)
        /\ GetExpanded(o, lineDoc) = GetExpanded(f, lineDoc)
        /\ GetHeight(o, lineDoc) = GetHeight(f, lineDoc)
    /\ \A lineDoc \in 0..LinesInDoc(o) : DisplayFromDoc(o, lineDoc) = DisplayFromDoc(f, lineDoc)
    /\ \A lineDisplay \in 0..(LinesDisplayed(o) - 1) :
        DocFromDisplay(o, lineDisplay) = DocFromDisplay(f, lineDisplay)

\* o and f give the same answers, and still do after every InsertLine, InsertLines,
\* DeleteLine and DeleteLines made to both.
SameAfterLineCalls(o, f) ==
    /\ SameAnswers(o, f)
    /\ \A lineDoc \in 0..LinesInDoc(o) :
        /\ SameAnswers(CsInsertLine(o, lineDoc), CsInsertLine(f, lineDoc))
        /\ \A lineCount \in 1..2 :
            SameAnswers(CsInsertLines(o, lineDoc, lineCount),
                        CsInsertLines(f, lineDoc, lineCount))
    /\ \A lineDoc \in 0..(LinesInDoc(o) - 1) :
        /\ LinesInDoc(o) > 1 =>
              SameAnswers(CsDeleteLine(o, lineDoc), CsDeleteLine(f, lineDoc))
        /\ \A lineCount \in 1..(LinesInDoc(o) - lineDoc) :
            lineCount < LinesInDoc(o) =>
                SameAnswers(CsDeleteLines(o, lineDoc, lineCount),
                            CsDeleteLines(f, lineDoc, lineCount))

\* The ContractionState c is in full mode with every line visible, expanded and one
\* display line high.
FullModeUnfolded(c) ==
    /\ ~OneToOne(c)
    /\ \A lineDoc \in 0..(LinesInDoc(c) - 1) :
        GetVisible(c, lineDoc) /\ GetExpanded(c, lineDoc) /\ GetHeight(c, lineDoc) = 1

\* The ContractionState in one-to-one mode that was given the line calls of c.
InOneToOneMode(c) == [Clear EXCEPT !.linesInDocument = LinesInDoc(c)]

\* C38: for any InsertLine and DeleteLine calls, a ContractionState in one-to-one mode
\* and one in full mode with every line visible, expanded and of height 1 return
\* the same LinesInDoc(), LinesDisplayed(), GetVisible, GetExpanded, GetHeight,
\* DisplayFromDoc and DocFromDisplay.
OneToOneIsFullModeUnfolded ==
    /\ OneToOne(cs) => SameAfterLineCalls(cs, EnsureData(cs))
    /\ FullModeUnfolded(cs) => SameAfterLineCalls(InOneToOneMode(cs), cs)

\* Three lines in full mode, all visible, expanded and one display line high again.
ThreeLinesUnfoldedAgain ==
    /\ FullModeUnfolded(cs)
    /\ LinesInDoc(cs) = 3
    /\ LinesDisplayed(cs) = 3


\* ------------------------------------------------------------ properties of the runs under edits
\* C39: InsertSpace(position, insertLength) and DeleteRange(position, deleteLength)
\* of a RunStyles leave the value at every position that survives: after InsertSpace
\* ValueAt(q) is as before for q < position and ValueAt(q + insertLength) is the old
\* ValueAt(q) for q >= position; after DeleteRange ValueAt(q) is as before for
\* q < position and is the old ValueAt(q + deleteLength) for q >= position; Length()
\* grows by insertLength and shrinks by deleteLength.
RunEditsKeepValues ==
    /\ \A position \in 0..RunsLength(runs), insertLength \in 1..MaxRunsLength :
        /\ RunsLength(InsertSpace(runs, position, insertLength))
                = RunsLength(runs) + insertLength
        /\ \A q \in 0..(RunsLength(runs) - 1) :
            RunValueAt(InsertSpace(runs, position, insertLength),
                       IF q < position THEN q ELSE q + insertLength)
                = RunValueAt(runs, q)
    /\ \A position \in 0..RunsLength(runs) :
        \A deleteLength \in 0..(RunsLength(runs) - position) :
            /\ RunsLength(RunDeleteRange(runs, position, deleteLength))
                    = RunsLength(runs) - deleteLength
            /\ \A q \in 0..(RunsLength(runs) - deleteLength - 1) :
                RunValueAt(RunDeleteRange(runs, position, deleteLength), q)
                    = RunValueAt(runs, IF q < position THEN q ELSE q + deleteLength)

\* Three runs of different values over four positions: space is about to be inserted
\* at the start of the second run, and the second run is about to be deleted.
ThreeRunsToEdit ==
    /\ RunsLength(runs) = 4 /\ Runs(runs) = 3
    /\ RunValueAt(runs, 0) = 1 /\ RunValueAt(runs, 1) = 2 /\ RunValueAt(runs, 3) = 0
    /\ Runs(InsertSpace(runs, 1, 1)) = 3
    /\ Runs(RunDeleteRange(runs, 1, 2)) = 2


\* ------------------------------------------------------------ properties of the ScaledVectors
\* C40: for every undo record, the position (for a container record the token) and
\* the length that GetUndoStep and GetRedoStep return are the values passed to
\* AppendAction, for every value of type Sci::Position, and also for the records
\* written before a ScaledVector widened its elements for a larger value.
RecordsKeepValues ==
    /\ ~scaled.positions.fault
    /\ ~scaled.lengths.fault
    /\ \A index \in 0..(ScaledSlots - 1) :
        scaled.given[index + 1] # <<>> => StepValues(scaled, index) = scaled.given[index + 1]

\* The values from 0 to 2^56 - 1, which SizeForValue finds a size for.
Sizeable(value) == LessEq(value, MaxForBytes(maxElementSize - 1))

\* The records created so far were all given values from 0 to 2^56 - 1.
AllSizeable ==
    \A index \in 0..(ScaledSlots - 1) :
        scaled.given[index + 1] # <<>> =>
            Sizeable(scaled.given[index + 1][1]) /\ Sizeable(scaled.given[index + 1][2])

====
